---- MODULE Spec2Model ----
(***************************************************************************)
(* A model of the memlayout allocation engine: the interval library, the   *)
(* page tables with their four VA interval sets, the page-table manager    *)
(* with its four PA interval sets, and segment allocation.                 *)
(*                                                                         *)
(* Addresses are counted in granules of 4 KiB, the small page.  The 2 MiB   *)
(* page and the 8 GiB address range are scaled down (2 granules, 2 large   *)
(* pages) to keep the state space finite, alignment bits are scaled with   *)
(* them, and the 2 KiB cross-core data segment takes one granule, half of  *)
(* the large page that holds it.                                           *)
(* Logging calls are not modelled, and the parameter spelled mmu /         *)
(* mmu.mmu_name in the manager is the page table / its page_table_name.    *)
(***************************************************************************)
EXTENDS Integers, Sequences, FiniteSets, TLC

(***************************************************************************)
(* Program constants (scaled)                                              *)
(***************************************************************************)
\* Page_sizes.SIZE_4K, in granules
SIZE_4K == 1
\* Page_sizes.SIZE_2M, in granules (scaled)
SIZE_2M == 2
\* Page_sizes.SIZE_1G, in granules (scaled): reserved, rejected by allocate_page
SIZE_1G == 4
\* alignment bits of a 4 KiB page (12 in bytes)
BITS_4K == 0
\* alignment bits of a 2 MiB page (21 in bytes, scaled)
BITS_2M == 1
\* alignment bits of a 1 GiB page (30 in bytes, scaled)
BITS_1G == 2
\* start of the VA range of every page table and of the PA range (2 GiB + 2 MiB, scaled)
MEMORY_RANGE_START == 2
\* size of the VA range of every page table and of the PA range (8 GiB, scaled)
MEMORY_RANGE_SIZE == 4
\* byte_size of the cross-core data segment (2 KiB, one granule)
CROSS_CORE_SEGMENT_SIZE == 1
\* alignment_bits of the cross-core data segment (16 bytes: below a granule)
CROSS_CORE_SEGMENT_BITS == 0
\* alignment_bits = None
NoBits == -1
\* the least number random.randint(1234, 5678) may draw for the first segment id
SeedIdFirst == 1234

(***************************************************************************)
(* Bounds of the model                                                     *)
(***************************************************************************)
\* largest sequential_page_count tried
MaxSeq == 2
\* largest segment size tried, in granules
MaxSegSize == 3
\* most calls made in one behaviour
MaxCalls == 4
\* the addresses of a lone interval set are 0..MaxAddr-1
MaxAddr == 4
\* largest size given to a call on a lone interval set
MaxLibSize == 2
\* most add_region calls on a lone interval set that overlap a stored interval
MaxOverlaps == 1
\* the numbers above SeedIdFirst tried for the draw of the first segment id
MaxSeedSpread == 1

PageTableNames == {"A", "B"}
PageTypes == {"code", "data"}
PageSizes == {SIZE_4K, SIZE_2M}
NoName == "none"

(***************************************************************************)
(* Interval (interval_lib/interval.py)                                     *)
(***************************************************************************)
\* metadata: the keys the engine uses; NoName stands for an absent key
Meta(page_type, page_table, mmu, mmu_name) ==
    [page_type |-> page_type, page_table |-> page_table, mmu |-> mmu, mmu_name |-> mmu_name]

Interval(start, size, metadata) == [start |-> start, size |-> size, metadata |-> metadata]

End(i) == i.start + i.size

Contains(i, start, size) == i.start <= start /\ start + size <= End(i)

Overlaps(i, start, size) == ~(End(i) <= start \/ i.start >= start + size)

IsAdjacent(i, other) == End(i) = other.start \/ End(other) = i.start

\* can_merge_with asking for overlap where the code asks for adjacency
CanMergeWithOverlapping(i, other) ==
    Overlaps(i, other.start, other.size) /\ i.metadata = other.metadata

CanMergeWith(i, other) == IsAdjacent(i, other) /\ i.metadata = other.metadata

Min(a, b) == IF a <= b THEN a ELSE b
Max(a, b) == IF a >= b THEN a ELSE b

MergeWith(i, other) ==
    Interval(Min(i.start, other.start),
             Max(End(i), End(other)) - Min(i.start, other.start),
             i.metadata)

\* criteria: a record over a subset of the metadata keys
MatchesCriteria(i, criteria) ==
    \A k \in DOMAIN criteria : i.metadata[k] = criteria[k]

NoCriteria == << >>

(***************************************************************************)
(* IntervalLib (interval_lib/interval_lib.py): a set is the list           *)
(* self.intervals, in the order the code keeps it                          *)
(***************************************************************************)
RECURSIVE InsertByStart(_, _)
\* list.sort(key=start) is stable: x goes after the elements whose start is <= its own
InsertByStart(sorted, x) ==
    IF sorted = << >> THEN << x >>
    ELSE IF Head(sorted).start <= x.start
         THEN << Head(sorted) >> \o InsertByStart(Tail(sorted), x)
         ELSE << x >> \o sorted

RECURSIVE SortByStart(_)
SortByStart(ivs) ==
    IF ivs = << >> THEN << >>
    ELSE InsertByStart(SortByStart(SubSeq(ivs, 1, Len(ivs) - 1)), ivs[Len(ivs)])

RECURSIVE MergePass(_, _)
\* the while loop of _merge_adjacent_intervals, i counted from 1
MergePass(ivs, i) ==
    IF i >= Len(ivs) THEN ivs
    ELSE IF CanMergeWith(ivs[i], ivs[i + 1])
         THEN MergePass(SubSeq(ivs, 1, i - 1) \o << MergeWith(ivs[i], ivs[i + 1]) >>
                            \o SubSeq(ivs, i + 2, Len(ivs)), i)
         ELSE MergePass(ivs, i + 1)

MergeAdjacentIntervals(ivs) ==
    IF Len(ivs) < 2 THEN ivs ELSE MergePass(SortByStart(ivs), 1)

RECURSIVE AddFold(_, _, _, _)
\* the for loop of add_region: merged_intervals holds one interval
AddFold(ivs, k, merged, remaining) ==
    IF k > Len(ivs) THEN remaining \o << merged >>
    ELSE IF CanMergeWith(merged, ivs[k])
         THEN AddFold(ivs, k + 1, MergeWith(merged, ivs[k]), remaining)
         ELSE AddFold(ivs, k + 1, merged, Append(remaining, ivs[k]))

\* metadata is the final metadata: the set's default updated with the caller's
AddRegion(ivs, start, size, metadata) ==
    IF size <= 0 THEN ivs
    ELSE MergeAdjacentIntervals(AddFold(ivs, 1, Interval(start, size, metadata), << >>))

\* remove_region dropping the part after the region when it splits an interval
RemoveFragmentsDropsTail(i, start, size) ==
    IF ~Overlaps(i, start, size) THEN << i >>
    ELSE IF Contains(i, start, size)
         THEN (IF start > i.start
                 THEN << Interval(i.start, start - i.start, i.metadata) >> ELSE << >>)
    ELSE IF start <= i.start /\ start + size >= End(i) THEN << >>
    ELSE IF start <= i.start
         THEN (IF End(i) - (start + size) > 0
                 THEN << Interval(start + size, End(i) - (start + size), i.metadata) >>
                 ELSE << >>)
    ELSE (IF start - i.start > 0
            THEN << Interval(i.start, start - i.start, i.metadata) >> ELSE << >>)

\* what remove_region keeps of one stored interval
RemoveFragments(i, start, size) ==
    IF ~Overlaps(i, start, size) THEN << i >>
    ELSE IF Contains(i, start, size)
         THEN (IF start > i.start
                 THEN << Interval(i.start, start - i.start, i.metadata) >> ELSE << >>)
              \o (IF start + size < End(i)
                 THEN << Interval(start + size, End(i) - (start + size), i.metadata) >>
                 ELSE << >>)
    ELSE IF start <= i.start /\ start + size >= End(i) THEN << >>
    ELSE IF start <= i.start
         THEN (IF End(i) - (start + size) > 0
                 THEN << Interval(start + size, End(i) - (start + size), i.metadata) >>
                 ELSE << >>)
    ELSE (IF start - i.start > 0
            THEN << Interval(i.start, start - i.start, i.metadata) >> ELSE << >>)

RECURSIVE RemoveFold(_, _, _)
RemoveFold(ivs, start, size) ==
    IF ivs = << >> THEN << >>
    ELSE RemoveFragments(Head(ivs), start, size) \o RemoveFold(Tail(ivs), start, size)

RemoveRegion(ivs, start, size) ==
    IF size <= 0 THEN ivs ELSE RemoveFold(ivs, start, size)

\* remove_region returning whether the number of intervals changed
RemoveRegionModifiedByLength(ivs, start, size) ==
    size > 0 /\ Len(RemoveFold(ivs, start, size)) # Len(ivs)

\* the value remove_region returns
RemoveRegionModified(ivs, start, size) ==
    size > 0 /\ \E k \in 1..Len(ivs) : Overlaps(ivs[k], start, size)

\* 1 << n
Pow2(n) == 2 ^ n

\* (x + alignment - 1) & ~(alignment - 1), alignment a power of two
AlignUp(x, alignment) == ((x + alignment - 1) \div alignment) * alignment

\* x & ~(alignment - 1)
AlignDown(x, alignment) == (x \div alignment) * alignment

\* find_region: alignment = 1 << alignment_bits if alignment_bits and alignment_bits > 0 else 1
AlignmentOf(alignment_bits) == IF alignment_bits > 0 THEN Pow2(alignment_bits) ELSE 1

\* _find_suitable_intervals: the indices of the suitable intervals
SuitableIntervals(ivs, size, alignment, criteria) ==
    IF size <= 0 THEN {}
    ELSE { k \in 1..Len(ivs) :
             /\ MatchesCriteria(ivs[k], criteria)
             /\ ivs[k].size >= size
             /\ (alignment > 1 =>
                   AlignUp(ivs[k].start, alignment)
                       <= AlignDown(ivs[k].start + ivs[k].size - size, alignment)) }

\* the positions of find_region with max_start taken as the end of the interval
PositionsInToEnd(i, size, alignment) ==
    LET first_aligned == AlignUp(i.start, alignment)
        max_start == i.start + i.size
        last_aligned == AlignDown(max_start, alignment)
    IN  IF alignment > 1 /\ first_aligned # last_aligned
          THEN { first_aligned + n * alignment :
                     n \in 0..(((last_aligned - first_aligned) \div alignment)) }
        ELSE IF alignment <= 1 THEN i.start..max_start
        ELSE { first_aligned }

\* the positions find_region may draw inside one suitable interval
PositionsIn(i, size, alignment) ==
    LET first_aligned == AlignUp(i.start, alignment)
        max_start == i.start + i.size - size
        last_aligned == AlignDown(max_start, alignment)
    IN  IF alignment > 1 /\ first_aligned # last_aligned
          THEN { first_aligned + n * alignment :
                     n \in 0..(((last_aligned - first_aligned) \div alignment)) }
        ELSE IF alignment <= 1 THEN i.start..max_start
        ELSE { first_aligned }

\* find_region always taking the first suitable interval
FindRegionFirstSuitable(ivs, size, alignment_bits, criteria) ==
    LET alignment == AlignmentOf(alignment_bits)
        suitable == SuitableIntervals(ivs, size, alignment, criteria)
    IN  UNION { PositionsIn(ivs[k], size, alignment) :
                    k \in { n \in suitable : \A other \in suitable : n <= other } }

\* find_region: the set of starts it may return; empty when it returns None
FindRegion(ivs, size, alignment_bits, criteria) ==
    LET alignment == AlignmentOf(alignment_bits)
    IN  UNION { PositionsIn(ivs[k], size, alignment) :
                    k \in SuitableIntervals(ivs, size, alignment, criteria) }

\* get_intervals(criteria)
GetIntervals(ivs, criteria) == SelectSeq(ivs, LAMBDA i : MatchesCriteria(i, criteria))

RECURSIVE TotalSize(_)
\* get_total_size()
TotalSize(ivs) == IF ivs = << >> THEN 0 ELSE Head(ivs).size + TotalSize(Tail(ivs))

\* the addresses a set stores
Covered(ivs) == UNION { ivs[k].start..(End(ivs[k]) - 1) : k \in 1..Len(ivs) }

(***************************************************************************)
(* State                                                                   *)
(***************************************************************************)
VARIABLES
    page_tables,                 \* PageTableManager.page_tables, in insertion order
    core_page_tables,            \* PageTableManager.core_page_tables
    unmapped_pa_intervals,       \* PageTableManager.unmapped_pa_intervals
    mapped_pa_intervals,         \* PageTableManager.mapped_pa_intervals
    non_allocated_pa_intervals,  \* PageTableManager.non_allocated_pa_intervals
    allocated_pa_intervals,      \* PageTableManager.allocated_pa_intervals
    allocations,                 \* PageTableManager.allocations; mmu names the page table
                                 \* whose Page objects covered_pages holds
    memory_segments,             \* SegmentManager.memory_segments of every core
    segments_created,            \* the MemorySegment objects constructed so far
    last,                        \* the last call made and how it ended
    ncalls,                      \* the number of calls made so far
    intervals,                   \* IntervalLib.intervals of a lone interval set
    lib_last,                    \* the last call made on the lone set, and its result
    overlaps_added               \* the add_region calls that overlapped a stored interval

vars == << page_tables, core_page_tables, unmapped_pa_intervals, mapped_pa_intervals,
           non_allocated_pa_intervals, allocated_pa_intervals, allocations,
           memory_segments, segments_created, last, ncalls, intervals, lib_last,
           overlaps_added >>

\* the variables of the manager and its page tables
manager_vars == << page_tables, core_page_tables, unmapped_pa_intervals,
                   mapped_pa_intervals, non_allocated_pa_intervals,
                   allocated_pa_intervals, allocations, memory_segments,
                   segments_created, last, ncalls >>

\* the variables of the lone interval set
lib_vars == << intervals, lib_last, overlaps_added >>

\* a call on the lone interval set, its arguments and what it returned; before is the
\* list the call started from, kept where a property compares with it
LibCall(op, start, size, alignment_bits, metadata, criteria_type, result, before, fresh) ==
    [ op |-> op, start |-> start, size |-> size, alignment_bits |-> alignment_bits,
      metadata |-> metadata, criteria_type |-> criteria_type, result |-> result,
      before |-> before, fresh |-> fresh ]

\* a returned (start, size), or None / an exception when found is FALSE
Returned(found, start, size) == [found |-> found, start |-> start, size |-> size]

CoreIds == {"core_0", "core_1"}

\* the cores tried for a page table: "B" on the core of "A" or on another one
CoreChoices(name) == IF name = "A" THEN {"core_0"} ELSE CoreIds

\* default metadata of the PA sets and of the unmapped/mapped VA sets: no page_type
PaDefault == Meta(NoName, NoName, NoName, NoName)
VaDefault(name) == Meta(NoName, name, NoName, NoName)

\* the execution_context a caller creates a page table with: one per name
ContextOf(page_table_name) == IF page_table_name = "A" THEN "EL3" ELSE "EL1_NS"

\* PageTable.__init__
PageTable(page_table_name, core_id) ==
    [ page_table_name |-> page_table_name,
      core_id |-> core_id,
      execution_context |-> ContextOf(page_table_name),
      unmapped_va_intervals |->
          AddRegion(<< >>, MEMORY_RANGE_START, MEMORY_RANGE_SIZE, VaDefault(page_table_name)),
      mapped_va_intervals |-> << >>,
      allocated_va_intervals |-> << >>,
      non_allocated_va_intervals |-> << >>,
      page_table_entries |-> << >>,
      page_table_entries_by_type |-> [ page_type \in PageTypes |-> << >> ] ]

\* Page.__init__: the fields the engine reads
Page(va, pa, size, page_type, is_cross_core, execution_context) ==
    [ va |-> va, pa |-> pa, size |-> size, page_type |-> page_type,
      is_cross_core |-> is_cross_core, execution_context |-> execution_context ]

\* Page.end_va
EndVa(p) == p.va + p.size - 1

\* the manager and its page tables, as the operations read and write them
World ==
    [ page_tables |-> page_tables,
      unmapped_pa_intervals |-> unmapped_pa_intervals,
      mapped_pa_intervals |-> mapped_pa_intervals,
      non_allocated_pa_intervals |-> non_allocated_pa_intervals,
      allocated_pa_intervals |-> allocated_pa_intervals,
      allocations |-> allocations,
      memory_segments |-> memory_segments,
      segments_created |-> segments_created ]

\* the index of a registered page table
IndexOf(tables, name) == CHOOSE t \in 1..Len(tables) : tables[t].page_table_name = name

Registered(tables) == { tables[t].page_table_name : t \in 1..Len(tables) }

\* PageTableManager.__init__
Init ==
    /\ page_tables = << >>
    /\ core_page_tables = [c \in CoreIds |-> << >>]
    /\ unmapped_pa_intervals =
           AddRegion(<< >>, MEMORY_RANGE_START, MEMORY_RANGE_SIZE, PaDefault)
    /\ mapped_pa_intervals = << >>
    /\ non_allocated_pa_intervals = << >>
    /\ allocated_pa_intervals = << >>
    /\ allocations = << >>
    /\ memory_segments = [c \in CoreIds |-> << >>]
    /\ segments_created = 0
    /\ last = [op |-> "init", result |-> "ok", VA_eq_PA |-> FALSE]
    /\ ncalls = 0
    /\ intervals = << >>
    /\ lib_last = LibCall("init", 0, 0, NoBits, PaDefault, NoName,
                          Returned(FALSE, 0, 0), << >>, FALSE)
    /\ overlaps_added = 0

\* the variables take the values of world w
Commit(w) ==
    /\ page_tables' = w.page_tables
    /\ unmapped_pa_intervals' = w.unmapped_pa_intervals
    /\ mapped_pa_intervals' = w.mapped_pa_intervals
    /\ non_allocated_pa_intervals' = w.non_allocated_pa_intervals
    /\ allocated_pa_intervals' = w.allocated_pa_intervals
    /\ allocations' = w.allocations
    /\ memory_segments' = w.memory_segments
    /\ segments_created' = w.segments_created

\* the mutant of CreatePageTable: registers the name whether or not it is known
CreatePageTableAgain(page_table_name, core_id) ==
    /\ page_tables' = Append(page_tables, PageTable(page_table_name, core_id))
    /\ core_page_tables' =
           [core_page_tables EXCEPT ![core_id] = Append(@, page_table_name)]
    /\ last' = [op |-> "create_page_table", result |-> "ok", VA_eq_PA |-> FALSE]
    /\ UNCHANGED << unmapped_pa_intervals, mapped_pa_intervals,
                    non_allocated_pa_intervals, allocated_pa_intervals, allocations,
                    memory_segments, segments_created >>

\* PageTableManager.create_page_table
CreatePageTable(page_table_name, core_id) ==
    IF page_table_name \in Registered(page_tables)
      THEN /\ last' = [op |-> "create_page_table", result |-> "DuplicateName",
                        VA_eq_PA |-> FALSE]
           /\ UNCHANGED << page_tables, core_page_tables, unmapped_pa_intervals,
                           mapped_pa_intervals, non_allocated_pa_intervals,
                           allocated_pa_intervals, allocations, memory_segments,
                           segments_created >>
      ELSE /\ page_tables' = Append(page_tables, PageTable(page_table_name, core_id))
           /\ core_page_tables' =
                  [core_page_tables EXCEPT ![core_id] = Append(@, page_table_name)]
           /\ last' = [op |-> "create_page_table", result |-> "ok", VA_eq_PA |-> FALSE]
           /\ UNCHANGED << unmapped_pa_intervals, mapped_pa_intervals,
                           non_allocated_pa_intervals, allocated_pa_intervals, allocations,
                           memory_segments, segments_created >>

\* map_va_to_pa without the mapped_pa_intervals.add_region line
MapVaToPaUnrecorded(w, t, va_addr, pa_addr, size, page_type) ==
    LET name == w.page_tables[t].page_table_name
    IN  [ w EXCEPT
            !.unmapped_pa_intervals = RemoveRegion(@, pa_addr, size),
            !.non_allocated_pa_intervals =
                AddRegion(@, pa_addr, size, Meta(page_type, name, NoName, NoName)),
            !.page_tables[t].unmapped_va_intervals = RemoveRegion(@, va_addr, size),
            !.page_tables[t].mapped_va_intervals =
                AddRegion(@, va_addr, size, VaDefault(name)),
            !.page_tables[t].non_allocated_va_intervals =
                AddRegion(@, va_addr, size, Meta(page_type, name, NoName, NoName)) ]

\* PageTableManager.map_va_to_pa, on page table number t of world w
MapVaToPa(w, t, va_addr, pa_addr, size, page_type) ==
    LET name == w.page_tables[t].page_table_name
    IN  [ w EXCEPT
            !.unmapped_pa_intervals = RemoveRegion(@, pa_addr, size),
            !.mapped_pa_intervals = AddRegion(@, pa_addr, size, PaDefault),
            !.non_allocated_pa_intervals =
                AddRegion(@, pa_addr, size, Meta(page_type, name, NoName, NoName)),
            !.page_tables[t].unmapped_va_intervals = RemoveRegion(@, va_addr, size),
            !.page_tables[t].mapped_va_intervals =
                AddRegion(@, va_addr, size, VaDefault(name)),
            !.page_tables[t].non_allocated_va_intervals =
                AddRegion(@, va_addr, size, Meta(page_type, name, NoName, NoName)) ]

(***************************************************************************)
(* PageTable.allocate_page (page_table_management/page_table.py)           *)
(***************************************************************************)
\* the overlaps of two interval lists large enough for size_bytes, as (start, size)
MatchingRegions(va_intervals, pa_intervals, size_bytes) ==
    { r \in { [ start |-> Max(va_intervals[i].start, pa_intervals[j].start),
                size |-> Min(End(va_intervals[i]) - 1, End(pa_intervals[j]) - 1)
                           - Max(va_intervals[i].start, pa_intervals[j].start) + 1 ] :
                  i \in 1..Len(va_intervals), j \in 1..Len(pa_intervals) } :
        r.size >= 1 /\ r.size >= size_bytes }

\* _find_va_eq_pa_unmapped_region matching the free PA against the whole VA range
\* instead of the table's unmapped VA
FindVaEqPaUnmappedRegionPaOnly(tbl, w, size_bytes, alignment_bits) ==
    LET matching ==
            MatchingRegions(
              << Interval(MEMORY_RANGE_START, MEMORY_RANGE_SIZE,
                          VaDefault(tbl.page_table_name)) >>,
              w.unmapped_pa_intervals, size_bytes)
        alignment == Pow2(alignment_bits)
        First(r) == AlignUp(r.start, alignment)
        LastAligned(r) == AlignDown(r.start + r.size - size_bytes, alignment)
        suitable ==
            IF alignment_bits # NoBits
              THEN { r \in matching : /\ First(r) <= LastAligned(r)
                                      /\ First(r) + size_bytes <= r.start + r.size }
              ELSE matching
    IN  UNION { IF alignment_bits # NoBits /\ alignment_bits > 0
                  THEN (IF First(r) # LastAligned(r)
                          THEN { First(r) + n * alignment :
                                   n \in 0..((LastAligned(r) - First(r)) \div alignment) }
                          ELSE { First(r) })
                  ELSE r.start..(r.start + r.size - size_bytes) : r \in suitable }

\* _find_va_eq_pa_unmapped_region: the starts it may return; empty when it raises
FindVaEqPaUnmappedRegion(tbl, w, size_bytes, alignment_bits) ==
    LET matching == MatchingRegions(tbl.unmapped_va_intervals, w.unmapped_pa_intervals,
                                    size_bytes)
        alignment == Pow2(alignment_bits)
        First(r) == AlignUp(r.start, alignment)
        LastAligned(r) == AlignDown(r.start + r.size - size_bytes, alignment)
        suitable ==
            IF alignment_bits # NoBits
              THEN { r \in matching : /\ First(r) <= LastAligned(r)
                                      /\ First(r) + size_bytes <= r.start + r.size }
              ELSE matching
    IN  UNION { IF alignment_bits # NoBits /\ alignment_bits > 0
                  THEN (IF First(r) # LastAligned(r)
                          THEN { First(r) + n * alignment :
                                   n \in 0..((LastAligned(r) - First(r)) \div alignment) }
                          ELSE { First(r) })
                  ELSE r.start..(r.start + r.size - size_bytes) : r \in suitable }

\* the Page objects of allocate_page with every pa left at pa_start
NewPagesSamePa(va_start, pa_start, size_bytes, page_type, sequential_page_count, execution_context) ==
    [ i \in 1..sequential_page_count |->
        Page(va_start + (i - 1) * size_bytes, pa_start, size_bytes, page_type, FALSE,
             execution_context) ]

\* the Page objects allocate_page creates, in order
NewPages(va_start, pa_start, size_bytes, page_type, sequential_page_count, execution_context) ==
    [ i \in 1..sequential_page_count |->
        Page(va_start + (i - 1) * size_bytes, pa_start + (i - 1) * size_bytes,
             size_bytes, page_type, FALSE, execution_context) ]

\* the mutant of AppendPages: the per-type index is not kept
AppendPagesToListOnly(w, t, pages) ==
    [ w EXCEPT !.page_tables[t].page_table_entries = @ \o pages ]

\* page_table_entries.append and page_table_entries_by_type[page_type].append for
\* every new page; the pages of one call have one page_type
AppendPages(w, t, pages) ==
    [ w EXCEPT !.page_tables[t].page_table_entries = @ \o pages,
               !.page_tables[t].page_table_entries_by_type[pages[1].page_type] =
                   @ \o pages ]

\* what allocate_page returns: the Page itself for one page, the list otherwise
ReturnedPages(result, sequential_page_count) ==
    IF sequential_page_count = 1 THEN result[1] ELSE result

\* the default alignment_bits of a page size
DefaultBits(size) ==
    IF size = SIZE_4K THEN BITS_4K ELSE IF size = SIZE_2M THEN BITS_2M ELSE BITS_1G

\* allocate_page, VA_eq_PA=False, after input normalization: every way the call may end
AllocatePageNormal(w, t, size_bytes, full_size_bytes, alignment_bits, page_type, sequential_page_count) ==
    LET tbl == w.page_tables[t]
        vas == FindRegion(tbl.unmapped_va_intervals, full_size_bytes, alignment_bits,
                          NoCriteria)
        AfterVa(va) ==
            [ w EXCEPT !.page_tables[t].unmapped_va_intervals =
                           RemoveRegion(@, va, full_size_bytes) ]
        Pas(va) == FindRegion(w.unmapped_pa_intervals, full_size_bytes, alignment_bits,
                              NoCriteria)
        AfterPa(va, pa) ==
            [ AfterVa(va) EXCEPT !.unmapped_pa_intervals =
                                     RemoveRegion(@, pa, full_size_bytes) ]
        Created(va, pa) == NewPages(va, pa, size_bytes, page_type, sequential_page_count,
                                    tbl.execution_context)
    IN  IF vas = {} THEN { [world |-> w, result |-> "OutOfVA", returned |-> NoName] }
        ELSE UNION { IF Pas(va) = {}
                       THEN { [ world |-> AfterVa(va), result |-> "OutOfPA",
                                returned |-> NoName ] }
                       ELSE { [ world |->
                                  AppendPages(
                                    MapVaToPa(AfterPa(va, pa), t, va, pa, full_size_bytes,
                                              page_type),
                                    t, Created(va, pa)),
                                result |-> "ok",
                                returned |-> ReturnedPages(Created(va, pa),
                                                           sequential_page_count) ] :
                                pa \in Pas(va) } : va \in vas }

\* allocate_page, VA_eq_PA=True, after input normalization
AllocatePageIdentity(w, t, size_bytes, full_size_bytes, alignment_bits, page_type, sequential_page_count) ==
    LET starts == FindVaEqPaUnmappedRegion(w.page_tables[t], w, full_size_bytes,
                                           alignment_bits)
        Removed(va) ==
            [ w EXCEPT !.page_tables[t].unmapped_va_intervals =
                           RemoveRegion(@, va, full_size_bytes),
                       !.unmapped_pa_intervals = RemoveRegion(@, va, full_size_bytes) ]
        Created(va) == NewPages(va, va, size_bytes, page_type, sequential_page_count,
                                w.page_tables[t].execution_context)
    IN  IF starts = {}
          THEN { [world |-> w, result |-> "OutOfIdentityRegion", returned |-> NoName] }
        ELSE { [ world |->
                   AppendPages(
                     MapVaToPa(Removed(va), t, va, va, full_size_bytes, page_type),
                     t, Created(va)),
                 result |-> "ok",
                 returned |-> ReturnedPages(Created(va), sequential_page_count) ] :
                 va \in starts }

\* the mutant of AllocatePageOutcomes: the arguments are not validated
AllocatePageOutcomesUnchecked(w, t, size, alignment_bits, page_type, sequential_page_count, VA_eq_PA) ==
    LET bits == IF alignment_bits = NoBits THEN DefaultBits(size) ELSE alignment_bits
        full_size_bytes ==
            IF sequential_page_count > 1 THEN size * sequential_page_count ELSE size
    IN  IF VA_eq_PA
          THEN AllocatePageIdentity(w, t, size, full_size_bytes, bits, page_type,
                                    sequential_page_count)
        ELSE AllocatePageNormal(w, t, size, full_size_bytes, bits, page_type,
                                sequential_page_count)

\* allocate_page: every way the call may end, as (world, result)
AllocatePageOutcomes(w, t, size, alignment_bits, page_type, sequential_page_count, VA_eq_PA) ==
    LET bits == IF alignment_bits = NoBits THEN DefaultBits(size) ELSE alignment_bits
        full_size_bytes ==
            IF sequential_page_count > 1 THEN size * sequential_page_count ELSE size
    IN  IF size \notin {SIZE_4K, SIZE_2M}
          THEN { [world |-> w, result |-> "InvalidArgument", returned |-> NoName] }
        ELSE IF alignment_bits # NoBits /\ alignment_bits < DefaultBits(size)
          THEN { [world |-> w, result |-> "InvalidAlignment", returned |-> NoName] }
        ELSE IF page_type = NoName
          THEN { [world |-> w, result |-> "InvalidArgument", returned |-> NoName] }
        ELSE IF VA_eq_PA
          THEN AllocatePageIdentity(w, t, size, full_size_bytes, bits, page_type,
                                    sequential_page_count)
        ELSE AllocatePageNormal(w, t, size, full_size_bytes, bits, page_type,
                                sequential_page_count)

AllocatePage(name, size, alignment_bits, page_type, sequential_page_count, VA_eq_PA) ==
    /\ name \in Registered(page_tables)
    /\ \E o \in AllocatePageOutcomes(World, IndexOf(page_tables, name), size,
                                     alignment_bits, page_type, sequential_page_count,
                                     VA_eq_PA) :
          /\ Commit(o.world)
          /\ last' = [op |-> "allocate_page", result |-> o.result, VA_eq_PA |-> VA_eq_PA]
    /\ UNCHANGED core_page_tables

(***************************************************************************)
(* PageTable.allocate_cross_core_page                                      *)
(***************************************************************************)
RECURSIVE CrossCoreFanOut(_, _, _)
\* the for loop over get_all_page_tables(), from page table number t on
CrossCoreFanOut(w, t, pa_start) ==
    IF t > Len(w.page_tables) THEN { [world |-> w, result |-> "ok"] }
    ELSE LET vas == FindRegion(w.page_tables[t].unmapped_va_intervals, SIZE_2M, BITS_2M,
                               NoCriteria)
             Mapped(va) ==
                 AppendPages(
                   MapVaToPa([ w EXCEPT !.page_tables[t].unmapped_va_intervals =
                                            RemoveRegion(@, va, SIZE_2M) ],
                             t, va, pa_start, SIZE_2M, "data"),
                   t, << Page(va, pa_start, SIZE_2M, "data", TRUE,
                             w.page_tables[t].execution_context) >>)
         IN  IF vas = {} THEN { [world |-> w, result |-> "OutOfVA"] }
             ELSE UNION { CrossCoreFanOut(Mapped(va), t + 1, pa_start) : va \in vas }

\* the mutant of AllocateCrossCorePageOutcomes: the PA is searched in the mapped PA too
AllocateCrossCorePageOutcomesAnyPa(w) ==
    LET pas == FindRegion(w.unmapped_pa_intervals \o w.mapped_pa_intervals, SIZE_2M,
                          BITS_2M, NoCriteria)
    IN  IF pas = {} THEN { [world |-> w, result |-> "OutOfPA"] }
        ELSE UNION { CrossCoreFanOut(
                       [ w EXCEPT !.unmapped_pa_intervals = RemoveRegion(@, pa, SIZE_2M) ],
                       1, pa) : pa \in pas }

\* allocate_cross_core_page: every way the call may end
AllocateCrossCorePageOutcomes(w) ==
    LET pas == FindRegion(w.unmapped_pa_intervals, SIZE_2M, BITS_2M, NoCriteria)
    IN  IF pas = {} THEN { [world |-> w, result |-> "OutOfPA"] }
        ELSE UNION { CrossCoreFanOut(
                       [ w EXCEPT !.unmapped_pa_intervals = RemoveRegion(@, pa, SIZE_2M) ],
                       1, pa) : pa \in pas }

\* called on any registered page table: the result does not depend on which
AllocateCrossCorePage ==
    /\ page_tables # << >>
    /\ \E o \in AllocateCrossCorePageOutcomes(World) :
          /\ Commit(o.world)
          /\ last' = [op |-> "allocate_cross_core_page", result |-> o.result,
                       VA_eq_PA |-> FALSE]
    /\ UNCHANGED core_page_tables

(***************************************************************************)
(* PageTableManager.allocate_segment (page_table_manager.py)               *)
(***************************************************************************)
RECURSIVE InsertByVa(_, _)
\* list.sort(key=va) is stable
InsertByVa(sorted, p) ==
    IF sorted = << >> THEN << p >>
    ELSE IF Head(sorted).va <= p.va
         THEN << Head(sorted) >> \o InsertByVa(Tail(sorted), p)
         ELSE << p >> \o sorted

RECURSIVE SortByVa(_)
SortByVa(pages) ==
    IF pages = << >> THEN << >>
    ELSE InsertByVa(SortByVa(SubSeq(pages, 1, Len(pages) - 1)), pages[Len(pages)])

\* the mutant of OverlappingPages: a page that only touches an end of the range is left out
OverlappingPagesInside(pages, va_start, va_end) ==
    SelectSeq(pages, LAMBDA p : p.va < va_end /\ EndVa(p) > va_start)

\* the pages of a list that overlap [va_start, va_end], in list order
OverlappingPages(pages, va_start, va_end) ==
    SelectSeq(pages, LAMBDA p : p.va <= va_end /\ EndVa(p) >= va_start)

\* is_sequential after the loop over the sorted overlapping pages
IsSequential(pages) ==
    \A i \in 2..Len(pages) : EndVa(pages[i - 1]) + 1 = pages[i].va

RECURSIVE CoveredRangeEnd(_, _, _, _)
\* covered_range_end after the loop, which stops at the first gap
CoveredRangeEnd(pages, i, va_end, acc) ==
    IF i > Len(pages) THEN acc
    ELSE IF EndVa(pages[i - 1]) + 1 # pages[i].va THEN acc
    ELSE CoveredRangeEnd(pages, i + 1, va_end,
                         IF pages[i].va <= va_end THEN Min(EndVa(pages[i]), va_end) ELSE acc)

\* _find_regular_addresses after find_region chose va_start:
\* (result, pa_start, overlapping_pages)
RegularAddressesAt(tbl, va_start, size, alignment_bits) ==
    LET va_end == va_start + size - 1
        overlapping == SortByVa(OverlappingPages(tbl.page_table_entries, va_start, va_end))
        covered ==
            /\ overlapping # << >>
            /\ Max(overlapping[1].va, va_start) <= va_start
            /\ CoveredRangeEnd(overlapping, 2, va_end,
                               Min(EndVa(overlapping[1]), va_end)) >= va_end
            /\ IsSequential(overlapping)
        containing == { i \in 1..Len(overlapping) :
                          overlapping[i].va <= va_start /\ va_start <= EndVa(overlapping[i]) }
        first == CHOOSE i \in containing : \A j \in containing : i <= j
        pa_start == overlapping[first].pa + (va_start - overlapping[first].va)
    IN  IF ~covered \/ containing = {}
          THEN [result |-> "PageTableInconsistent", pa_start |-> 0, pages |-> << >>]
        ELSE IF alignment_bits # NoBits /\ pa_start % Pow2(alignment_bits) # 0
          THEN [result |-> "PageTableInconsistent", pa_start |-> 0, pages |-> << >>]
        ELSE [result |-> "ok", pa_start |-> pa_start, pages |-> overlapping]

\* the marking lines of allocate_segment without non_allocated_va_intervals.remove_region
MarkAllocatedKeepsFree(w, t, va_start, pa_start, size, page_type, covered_pages) ==
    LET name == w.page_tables[t].page_table_name
    IN  [ w EXCEPT
            !.page_tables[t].allocated_va_intervals =
                AddRegion(@, va_start, size, Meta(page_type, name, name, NoName)),
            !.allocated_pa_intervals =
                AddRegion(@, pa_start, size, Meta(page_type, NoName, name, NoName)),
            !.non_allocated_pa_intervals = RemoveRegion(@, pa_start, size),
            !.allocations =
                Append(@, [ va_start |-> va_start, pa_start |-> pa_start, size |-> size,
                            page_type |-> page_type, covered_pages |-> covered_pages,
                            mmu |-> name ]) ]

\* the lines of allocate_segment that mark the range allocated and record the allocation
MarkAllocated(w, t, va_start, pa_start, size, page_type, covered_pages) ==
    LET name == w.page_tables[t].page_table_name
    IN  [ w EXCEPT
            !.page_tables[t].allocated_va_intervals =
                AddRegion(@, va_start, size, Meta(page_type, name, name, NoName)),
            !.page_tables[t].non_allocated_va_intervals = RemoveRegion(@, va_start, size),
            !.allocated_pa_intervals =
                AddRegion(@, pa_start, size, Meta(page_type, NoName, name, NoName)),
            !.non_allocated_pa_intervals = RemoveRegion(@, pa_start, size),
            !.allocations =
                Append(@, [ va_start |-> va_start, pa_start |-> pa_start, size |-> size,
                            page_type |-> page_type, covered_pages |-> covered_pages,
                            mmu |-> name ]) ]

\* the criteria find_region is called with in _find_regular_addresses
RegularCriteria(page_type) == NoCriteria

\* allocate_segment, VA_eq_PA=False, once find_region chose va: the way the call ends
AllocateSegmentRegularAt(w, t, va, size, page_type, alignment_bits) ==
    LET at == RegularAddressesAt(w.page_tables[t], va, size, alignment_bits)
    IN  IF at.result = "ok"
          THEN [ world |-> MarkAllocated(w, t, va, at.pa_start, size, page_type, at.pages),
                 result |-> "ok" ]
          ELSE [ world |-> w, result |-> at.result ]

\* allocate_segment, VA_eq_PA=False: every way the call may end
AllocateSegmentRegular(w, t, size, page_type, alignment_bits) ==
    LET vas == FindRegion(w.page_tables[t].non_allocated_va_intervals, size, alignment_bits,
                          RegularCriteria(page_type))
    IN  IF vas = {} THEN { [world |-> w, result |-> "NoAvailableMappedRegion"] }
        ELSE { AllocateSegmentRegularAt(w, t, va, size, page_type, alignment_bits) :
                 va \in vas }

RECURSIVE FabricateMappings(_, _, _, _, _, _)
\* the while loop of _find_va_eq_pa_addresses that maps an uncovered range, page by page
FabricateMappings(w, t, current, remaining_size, page_size, page_type) ==
    IF remaining_size <= 0 THEN w
    ELSE FabricateMappings(
           MapVaToPa(w, t, current, current, Min(page_size, remaining_size), page_type),
           t, current + Min(page_size, remaining_size),
           remaining_size - Min(page_size, remaining_size), page_size, page_type)

\* _find_va_eq_pa_addresses: the starts it may choose; empty when it raises before choosing
FindVaEqPaStarts(tbl, w, size, page_type, alignment_bits) ==
    LET matching ==
            MatchingRegions(
              GetIntervals(tbl.non_allocated_va_intervals, [page_type |-> page_type]),
              GetIntervals(w.non_allocated_pa_intervals, [page_type |-> page_type]), size)
        alignment == Pow2(alignment_bits)
        aligned_regions ==
            IF alignment_bits # NoBits
              THEN { [ start |-> AlignUp(r.start, alignment),
                       size |-> r.size - (AlignUp(r.start, alignment) - r.start) ] :
                       r \in { m \in matching :
                                 AlignUp(m.start, alignment) + size <= m.start + m.size } }
              ELSE matching
    IN  UNION { IF alignment_bits # NoBits
                  THEN { r.start + n * alignment :
                           n \in 0..((r.size - size) \div alignment) }
                  ELSE r.start..(r.start + r.size - size) : r \in aligned_regions }

\* allocate_segment, VA_eq_PA=True: every way the call may end
AllocateSegmentIdentity(w, t, size, page_type, alignment_bits, page_size) ==
    LET tbl == w.page_tables[t]
        starts == FindVaEqPaStarts(tbl, w, size, page_type, alignment_bits)
        Over(va) == OverlappingPages(tbl.page_table_entries, va, va + size - 1)
    IN  IF \/ GetIntervals(tbl.non_allocated_va_intervals, [page_type |-> page_type]) = << >>
           \/ GetIntervals(w.non_allocated_pa_intervals, [page_type |-> page_type]) = << >>
          THEN { [world |-> w, result |-> "NoAvailableMappedRegion"] }
        ELSE IF starts = {} THEN { [world |-> w, result |-> "OutOfIdentityRegion"] }
        ELSE { IF \E i \in 1..Len(Over(va)) : Over(va)[i].va # Over(va)[i].pa
                 THEN [world |-> w, result |-> "NotIdentityMapped"]
               ELSE IF Over(va) = << >>
                 THEN [ world |->
                          MarkAllocated(FabricateMappings(w, t, va, size, page_size, page_type),
                                        t, va, va, size, page_type, << >>),
                        result |-> "ok" ]
               ELSE [ world |-> MarkAllocated(w, t, va, va, size, page_type, Over(va)),
                      result |-> "ok" ] : va \in starts }

\* the mutant of AllocateSegmentOutcomes: the call acts on the first registered page table
AllocateSegmentOutcomesOnFirst(w, t, size, page_type, alignment_bits, VA_eq_PA, page_size) ==
    IF VA_eq_PA THEN AllocateSegmentIdentity(w, 1, size, page_type, alignment_bits, page_size)
    ELSE AllocateSegmentRegular(w, 1, size, page_type, alignment_bits)

\* allocate_segment: every way the call may end
AllocateSegmentOutcomes(w, t, size, page_type, alignment_bits, VA_eq_PA, page_size) ==
    IF VA_eq_PA THEN AllocateSegmentIdentity(w, t, size, page_type, alignment_bits, page_size)
    ELSE AllocateSegmentRegular(w, t, size, page_type, alignment_bits)

AllocateSegment(name, size, page_type, alignment_bits, VA_eq_PA) ==
    /\ name \in Registered(page_tables)
    /\ \E o \in AllocateSegmentOutcomes(World, IndexOf(page_tables, name), size, page_type,
                                        alignment_bits, VA_eq_PA, SIZE_4K) :
          /\ Commit(o.world)
          /\ last' = [op |-> "allocate_segment", result |-> o.result, VA_eq_PA |-> VA_eq_PA]
    /\ UNCHANGED core_page_tables

(***************************************************************************)
(* SegmentManager.allocate_cross_core_data_memory_segment                  *)
(* (segment_management/segment_manager.py)                                 *)
(***************************************************************************)
\* get_pages_by_type(TYPE_DATA) filtered by is_cross_core, in list order
CrossCorePages(tbl) ==
    SelectSeq(tbl.page_table_entries, LAMBDA p : p.page_type = "data" /\ p.is_cross_core)

\* contained_intervals: the free data intervals of the first table cut to the page
ContainedIntervals(tbl, page, byte_size) ==
    LET ivs == GetIntervals(tbl.non_allocated_va_intervals, [page_type |-> "data"])
        Cut(i) == [ start |-> Max(i.start, page.va),
                    size |-> Min(End(i) - 1, EndVa(page)) - Max(i.start, page.va) + 1 ]
    IN  { Cut(ivs[k]) : k \in { n \in 1..Len(ivs) :
                                  /\ End(ivs[n]) - 1 >= page.va
                                  /\ ivs[n].start <= EndVa(page)
                                  /\ Cut(ivs[n]).size >= byte_size } }

\* the aligned starts inside a contained interval; empty when none fits
SegmentPositions(r, byte_size, alignment) ==
    LET max_start == r.start + r.size - byte_size
        min_start == AlignUp(r.start, alignment)
    IN  IF min_start > max_start THEN {}
        ELSE { min_start + n * alignment : n \in 0..((max_start - min_start) \div alignment) }

\* DataSegment.__init__ when created objects were constructed before it: the name is
\* the given name and the class counter, which started at the number drawn at import
\* and a DATA_PRESERVE segment starts with a tracker holding its whole range
DataSegment(name, created, mmu, address, pa_address, byte_size, is_cross_core, memory_type) ==
    [ name |-> name, serial |-> created + 1, mmu |-> mmu, address |-> address,
      pa_address |-> pa_address, byte_size |-> byte_size, is_cross_core |-> is_cross_core,
      memory_type |-> memory_type,
      interval_tracker |->
          IF memory_type = "data_reserved"
            THEN AddRegion(<< >>, address, byte_size, PaDefault) ELSE << >>,
      data_units_list |-> << >> ]

RECURSIVE SegmentFanOut(_, _, _, _, _, _)
\* the loop over all states and their page tables, from position k of the visiting order
SegmentFanOut(w, names, k, shared_pa, page_offset, byte_size) ==
    IF k > Len(names) THEN [world |-> w, result |-> "ok"]
    ELSE LET t == IndexOf(w.page_tables, names[k])
             pages == SelectSeq(w.page_tables[t].page_table_entries,
                                LAMBDA p : p.page_type = "data" /\ p.is_cross_core
                                           /\ p.pa = shared_pa)
             segment_va_start == pages[1].va + page_offset
             marked ==
                 [ w EXCEPT
                     !.page_tables[t].allocated_va_intervals =
                         AddRegion(@, segment_va_start, byte_size,
                                   Meta("data", names[k], NoName, names[k])),
                     !.page_tables[t].non_allocated_va_intervals =
                         RemoveRegion(@, segment_va_start, byte_size),
                     !.allocations =
                         Append(@, [ va_start |-> segment_va_start,
                                     pa_start |-> shared_pa + page_offset,
                                     size |-> byte_size, page_type |-> "data",
                                     covered_pages |-> << pages[1] >>,
                                     mmu |-> names[k] ]),
                     !.memory_segments[w.page_tables[t].core_id] =
                         Append(@, DataSegment("cross_core_data_segment",
                                               w.segments_created, names[k],
                                               segment_va_start, shared_pa + page_offset,
                                               byte_size, TRUE, "data_reserved")),
                     !.segments_created = @ + 1 ]
         IN  IF pages = << >> THEN [world |-> w, result |-> "NoMatchingCrossCorePage"]
             ELSE SegmentFanOut(marked, names, k + 1, shared_pa, page_offset, byte_size)

\* the page tables in the order the loop visits them, for an order of the cores
VisitOrder(tables_of, order) ==
    IF Len(order) = 0 THEN << >>
    ELSE tables_of[order[1]] \o tables_of[order[2]]

\* allocate_cross_core_data_memory_segment called on core current_state:
\* every way the call may end
AllocateCrossCoreSegmentOutcomes(w, tables_of, current_state, order) ==
    LET first_MMU == w.page_tables[IndexOf(w.page_tables, tables_of[current_state][1])]
        cross_core_pages == CrossCorePages(first_MMU)
        byte_size == CROSS_CORE_SEGMENT_SIZE
        alignment == Pow2(CROSS_CORE_SEGMENT_BITS)
        Marked(pa) ==
            [ w EXCEPT
                !.allocated_pa_intervals =
                    AddRegion(@, pa, byte_size,
                              Meta("data", NoName, NoName, first_MMU.page_table_name)),
                !.non_allocated_pa_intervals = RemoveRegion(@, pa, byte_size) ]
        Chosen(page, r) ==
            IF SegmentPositions(r, byte_size, alignment) = {}
              THEN { [world |-> w, result |-> "NoCrossCoreRoom"] }
              ELSE { SegmentFanOut(Marked(page.pa + (va - page.va)),
                                   VisitOrder(tables_of, order), 1, page.pa,
                                   va - page.va, byte_size) :
                       va \in SegmentPositions(r, byte_size, alignment) }
        OnPage(page) ==
            IF ContainedIntervals(first_MMU, page, byte_size) = {}
              THEN { [world |-> w, result |-> "NoCrossCoreRoom"] }
              ELSE UNION { Chosen(page, r) :
                             r \in ContainedIntervals(first_MMU, page, byte_size) }
    IN  IF cross_core_pages = << >> THEN { [world |-> w, result |-> "NoCrossCorePage"] }
        ELSE UNION { OnPage(cross_core_pages[i]) : i \in 1..Len(cross_core_pages) }

\* the orders in which get_all_states() may list the cores
CoreOrders == { << "core_0", "core_1" >>, << "core_1", "core_0" >> }

AllocateCrossCoreSegment(current_state, order) ==
    /\ core_page_tables[current_state] # << >>
    /\ \E o \in AllocateCrossCoreSegmentOutcomes(World, core_page_tables, current_state,
                                                 order) :
          /\ Commit(o.world)
          /\ last' = [op |-> "allocate_cross_core_data_memory_segment",
                      result |-> o.result, VA_eq_PA |-> FALSE]
    /\ UNCHANGED core_page_tables

(***************************************************************************)
(* The calls                                                               *)
(***************************************************************************)
\* the arguments tried for allocate_page: the valid ones, and one of each invalid kind
PageArgs ==
    [ size : PageSizes, alignment_bits : {NoBits, BITS_2M}, page_type : PageTypes,
      sequential_page_count : 1..MaxSeq, VA_eq_PA : BOOLEAN ]
    \cup { [ size |-> SIZE_1G, alignment_bits |-> NoBits, page_type |-> "data",
             sequential_page_count |-> 1, VA_eq_PA |-> FALSE ],
           [ size |-> SIZE_2M, alignment_bits |-> BITS_4K, page_type |-> "data",
             sequential_page_count |-> 1, VA_eq_PA |-> FALSE ],
           [ size |-> SIZE_4K, alignment_bits |-> NoBits, page_type |-> NoName,
             sequential_page_count |-> 1, VA_eq_PA |-> FALSE ] }

\* the arguments tried for allocate_segment
SegmentArgs ==
    [ size : 1..MaxSegSize, page_type : PageTypes, alignment_bits : {NoBits, BITS_2M},
      VA_eq_PA : BOOLEAN ]

\* one more call is made
Called == ncalls < MaxCalls /\ ncalls' = ncalls + 1 /\ UNCHANGED lib_vars

Next ==
    \/ \E name \in PageTableNames : \E core_id \in CoreChoices(name) :
          Called /\ CreatePageTable(name, core_id)
    \/ \E name \in PageTableNames, a \in PageArgs :
          Called /\ AllocatePage(name, a.size, a.alignment_bits, a.page_type,
                                 a.sequential_page_count, a.VA_eq_PA)
    \/ Called /\ AllocateCrossCorePage
    \/ \E name \in PageTableNames, a \in SegmentArgs :
          Called /\ AllocateSegment(name, a.size, a.page_type, a.alignment_bits, a.VA_eq_PA)
    \/ \E current_state \in CoreIds, order \in CoreOrders :
          Called /\ AllocateCrossCoreSegment(current_state, order)

Spec == Init /\ [][Next]_vars

(***************************************************************************)
(* Calls on a lone IntervalLib, created as IntervalLib() with no range     *)
(***************************************************************************)
\* the metadata given to add_region
LibMetas == { Meta(T, NoName, NoName, NoName) : T \in PageTypes }

\* criteria: None, or {"page_type": T}
Criteria(criteria_type) ==
    IF criteria_type = NoName THEN NoCriteria ELSE [page_type |-> criteria_type]

\* the region overlaps an interval of the list
OverlapsStored(ivs, start, size) ==
    \E k \in 1..Len(ivs) : Overlaps(ivs[k], start, size)

\* add_region(start, size, metadata)
LibAddRegion(start, size, metadata) ==
    LET fresh == ~OverlapsStored(intervals, start, size)
    IN  /\ size > 0 /\ ~fresh => overlaps_added < MaxOverlaps
        /\ intervals' = AddRegion(intervals, start, size, metadata)
        /\ overlaps_added' = IF size > 0 /\ ~fresh THEN overlaps_added + 1
                             ELSE overlaps_added
        /\ lib_last' = LibCall("add_region", start, size, NoBits, metadata, NoName,
                               Returned(size > 0, 0, 0),
                               IF size > 0 /\ fresh THEN intervals ELSE << >>,
                               size > 0 /\ fresh)
        /\ UNCHANGED manager_vars

\* remove_region(start, size); fresh tells that the call before was the add_region
\* of the same region, which overlapped nothing; before is then the list before that
\* add_region and metadata the metadata it was given
LibRemoveRegion(start, size) ==
    LET undoes == /\ lib_last.op = "add_region" /\ lib_last.fresh
                  /\ lib_last.start = start /\ lib_last.size = size
    IN  /\ intervals' = RemoveRegion(intervals, start, size)
        /\ lib_last' = LibCall("remove_region", start, size, NoBits,
                               IF undoes THEN lib_last.metadata ELSE PaDefault, NoName,
                               Returned(RemoveRegionModified(intervals, start, size), 0, 0),
                               IF undoes THEN lib_last.before ELSE << >>, undoes)
        /\ UNCHANGED << overlaps_added, manager_vars >>

\* find_region(size, alignment_bits, criteria): what it may return
FindRegionResults(ivs, size, alignment_bits, criteria) ==
    IF FindRegion(ivs, size, alignment_bits, criteria) = {}
      THEN { Returned(FALSE, 0, 0) }
      ELSE { Returned(TRUE, position_start, size) :
               position_start \in FindRegion(ivs, size, alignment_bits, criteria) }

LibFindRegion(size, alignment_bits, criteria_type) ==
    /\ \E r \in FindRegionResults(intervals, size, alignment_bits, Criteria(criteria_type)) :
          lib_last' = LibCall("find_region", 0, size, alignment_bits, PaDefault,
                              criteria_type, r, << >>, FALSE)
    /\ UNCHANGED << intervals, overlaps_added, manager_vars >>

\* find_and_remove removing found_size plus one where the code removes size
FindAndRemoveOutcomesWider(ivs, size, alignment_bits, criteria) ==
    { IF r.found
        THEN [intervals |-> RemoveRegion(ivs, r.start, r.size + 1),
              result |-> Returned(TRUE, r.start, size)]
        ELSE [intervals |-> ivs, result |-> r] :
        r \in FindRegionResults(ivs, size, alignment_bits, criteria) }

\* find_and_remove(size, alignment_bits, criteria): the list and the value it may leave;
\* found FALSE stands for the ValueError
FindAndRemoveOutcomes(ivs, size, alignment_bits, criteria) ==
    { IF r.found
        THEN [intervals |-> RemoveRegion(ivs, r.start, size),
              result |-> Returned(TRUE, r.start, size)]
        ELSE [intervals |-> ivs, result |-> r] :
        r \in FindRegionResults(ivs, size, alignment_bits, criteria) }

LibFindAndRemove(size, alignment_bits, criteria_type) ==
    /\ \E o \in FindAndRemoveOutcomes(intervals, size, alignment_bits,
                                      Criteria(criteria_type)) :
          /\ intervals' = o.intervals
          /\ lib_last' = LibCall("find_and_remove", 0, size, alignment_bits, PaDefault,
                                 criteria_type, o.result, intervals, FALSE)
    /\ UNCHANGED << overlaps_added, manager_vars >>

\* the regions given to add_region and remove_region: inside 0..MaxAddr-1, or empty
LibRegions ==
    { r \in [start : 0..(MaxAddr - 1), size : 0..MaxLibSize] : r.start + r.size <= MaxAddr }

\* the alignment_bits given to find_region and find_and_remove
LibBits == {NoBits, 1}

NextLib ==
    \/ \E r \in LibRegions, metadata \in LibMetas : LibAddRegion(r.start, r.size, metadata)
    \/ \E r \in LibRegions : LibRemoveRegion(r.start, r.size)
    \/ \E size \in 0..MaxLibSize, alignment_bits \in LibBits,
          criteria_type \in PageTypes \cup {NoName} :
          LibFindRegion(size, alignment_bits, criteria_type)
    \/ \E size \in 0..MaxLibSize, alignment_bits \in LibBits,
          criteria_type \in PageTypes \cup {NoName} :
          LibFindAndRemove(size, alignment_bits, criteria_type)

SpecLib == Init /\ [][NextLib]_vars

(***************************************************************************)
(* IntervalLib.split_region and contains_region on the lone interval set   *)
(***************************************************************************)
\* Interval.split_at: the fragments before and after the region, each empty or one interval
SplitAt(i, split_start, split_size) ==
    [ before |-> IF split_start > i.start
                   THEN << Interval(i.start, split_start - i.start, i.metadata) >>
                   ELSE << >>,
      split_interval |-> Interval(split_start, split_size, i.metadata),
      after |-> IF split_start + split_size < End(i)
                  THEN << Interval(split_start + split_size,
                                   End(i) - (split_start + split_size), i.metadata) >>
                  ELSE << >> ]

\* the list without its element number k
WithoutIndex(ivs, k) == SubSeq(ivs, 1, k - 1) \o SubSeq(ivs, k + 1, Len(ivs))

\* split_region keeping the containing interval and appending the fragments
SplitRegionKeepsInterval(ivs, start, size) ==
    LET containing == { k \in 1..Len(ivs) : Contains(ivs[k], start, size) }
        first == CHOOSE k \in containing : \A other \in containing : k <= other
        parts == SplitAt(ivs[first], start, size)
    IN  IF size <= 0 \/ containing = {}
          THEN [ intervals |-> ivs, found |-> FALSE,
                 split_interval |-> Interval(0, 0, PaDefault) ]
          ELSE [ intervals |-> ivs \o parts.before \o parts.after,
                 found |-> TRUE, split_interval |-> parts.split_interval ]

\* split_region(start, size): the list it leaves and the interval it returns;
\* found FALSE stands for None
SplitRegion(ivs, start, size) ==
    LET containing == { k \in 1..Len(ivs) : Contains(ivs[k], start, size) }
        first == CHOOSE k \in containing : \A other \in containing : k <= other
        parts == SplitAt(ivs[first], start, size)
    IN  IF size <= 0 \/ containing = {}
          THEN [ intervals |-> ivs, found |-> FALSE,
                 split_interval |-> Interval(0, 0, PaDefault) ]
          ELSE [ intervals |-> WithoutIndex(ivs, first) \o parts.before \o parts.after,
                 found |-> TRUE, split_interval |-> parts.split_interval ]

LibSplitRegion(start, size) ==
    LET o == SplitRegion(intervals, start, size)
    IN  /\ intervals' = o.intervals
        /\ lib_last' = LibCall("split_region", start, size, NoBits,
                               o.split_interval.metadata, NoName,
                               Returned(o.found, o.split_interval.start,
                                        o.split_interval.size),
                               intervals, FALSE)
        /\ UNCHANGED << overlaps_added, manager_vars >>

\* contains_region ignoring the criteria
ContainsRegionOfAnyType(ivs, start, size, criteria) ==
    IF size <= 0 THEN TRUE
    ELSE \E k \in 1..Len(ivs) : Contains(ivs[k], start, size)

\* contains_region(start, size, criteria)
ContainsRegion(ivs, start, size, criteria) ==
    IF size <= 0 THEN TRUE
    ELSE \E k \in 1..Len(ivs) :
             /\ (criteria = NoCriteria \/ MatchesCriteria(ivs[k], criteria))
             /\ Contains(ivs[k], start, size)

LibContainsRegion(start, size, criteria_type) ==
    /\ lib_last' = LibCall("contains_region", start, size, NoBits, PaDefault,
                           criteria_type,
                           Returned(ContainsRegion(intervals, start, size,
                                                   Criteria(criteria_type)), 0, 0),
                           << >>, FALSE)
    /\ UNCHANGED << intervals, overlaps_added, manager_vars >>

NextSplit ==
    \/ \E r \in LibRegions, metadata \in LibMetas : LibAddRegion(r.start, r.size, metadata)
    \/ \E r \in LibRegions : LibSplitRegion(r.start, r.size)
    \/ \E r \in LibRegions, criteria_type \in PageTypes \cup {NoName} :
          LibContainsRegion(r.start, r.size, criteria_type)

SpecSplit == Init /\ [][NextSplit]_vars

(***************************************************************************)
(* IntervalLib.update_metadata, and every mutating call on the lone set    *)
(***************************************************************************)
\* dict.update: the keys of the update take its values
UpdatedDict(metadata, update) ==
    [ k \in DOMAIN metadata |-> IF k \in DOMAIN update THEN update[k] ELSE metadata[k] ]

\* update_metadata(start, size, metadata): the list it leaves and the value it returns;
\* the intervals that overlap the region are updated where they stand
UpdateMetadata(ivs, start, size, metadata) ==
    IF size <= 0 THEN [intervals |-> ivs, updated |-> FALSE]
    ELSE [ intervals |->
             [ k \in 1..Len(ivs) |->
                 IF Overlaps(ivs[k], start, size)
                   THEN Interval(ivs[k].start, ivs[k].size,
                                 UpdatedDict(ivs[k].metadata, metadata))
                   ELSE ivs[k] ],
           updated |-> \E k \in 1..Len(ivs) : Overlaps(ivs[k], start, size) ]

LibUpdateMetadata(start, size, page_type) ==
    LET o == UpdateMetadata(intervals, start, size, [page_type |-> page_type])
    IN  /\ intervals' = o.intervals
        /\ lib_last' = LibCall("update_metadata", start, size, NoBits,
                               Meta(page_type, NoName, NoName, NoName), NoName,
                               Returned(o.updated, 0, 0), intervals, FALSE)
        /\ UNCHANGED << overlaps_added, manager_vars >>

\* the five calls that change the list; add_region is given regions that overlap
\* nothing stored
NextMutate ==
    \/ \E r \in LibRegions, metadata \in LibMetas :
          ~OverlapsStored(intervals, r.start, r.size)
            /\ LibAddRegion(r.start, r.size, metadata)
    \/ \E r \in LibRegions : LibRemoveRegion(r.start, r.size)
    \/ \E size \in 0..MaxLibSize, alignment_bits \in LibBits,
          criteria_type \in PageTypes \cup {NoName} :
          LibFindAndRemove(size, alignment_bits, criteria_type)
    \/ \E r \in LibRegions : LibSplitRegion(r.start, r.size)
    \/ \E r \in LibRegions, page_type \in PageTypes :
          LibUpdateMetadata(r.start, r.size, page_type)

SpecMutate == Init /\ [][NextMutate]_vars

(***************************************************************************)
(* The search for room in a cross-core page, on the lone interval set      *)
(* (allocate_cross_core_data_memory_segment, lines 176-228)                *)
(***************************************************************************)
\* alignment_bits = 4 of the cross-core segment, where the lone interval set is counted
\* in units of half that alignment: an interval large enough for the segment may hold
\* no aligned start
ROOM_ALIGNMENT_BITS == 1

\* the cross-core page that spans the addresses of the lone interval set
RoomPage == Page(0, 0, MaxAddr, "data", TRUE, "EL3")

\* the lines from contained_intervals to chosen_va_start: what they may choose in the
\* page of a page table; found FALSE stands for the ValueError
CrossCoreRoom(first_MMU, cross_core_page, byte_size, alignment) ==
    LET contained_intervals == ContainedIntervals(first_MMU, cross_core_page, byte_size)
    IN  IF contained_intervals = {} THEN { Returned(FALSE, 0, 0) }
        ELSE UNION { IF SegmentPositions(selected_interval, byte_size, alignment) = {}
                       THEN { Returned(FALSE, 0, 0) }
                       ELSE { Returned(TRUE, chosen_va_start, byte_size) :
                                chosen_va_start \in SegmentPositions(selected_interval,
                                                                     byte_size, alignment) } :
                     selected_interval \in contained_intervals }

\* the search applied to the lone interval set as the non_allocated_va of the page table
LibCrossCoreRoom ==
    /\ \E r \in CrossCoreRoom([non_allocated_va_intervals |-> intervals], RoomPage,
                              CROSS_CORE_SEGMENT_SIZE, Pow2(ROOM_ALIGNMENT_BITS)) :
          lib_last' = LibCall("cross_core_room", 0, CROSS_CORE_SEGMENT_SIZE,
                              ROOM_ALIGNMENT_BITS, PaDefault, "data", r, << >>, FALSE)
    /\ UNCHANGED << intervals, overlaps_added, manager_vars >>

NextRoom ==
    \/ \E r \in LibRegions, metadata \in LibMetas : LibAddRegion(r.start, r.size, metadata)
    \/ \E r \in LibRegions : LibRemoveRegion(r.start, r.size)
    \/ LibCrossCoreRoom

SpecRoom == Init /\ [][NextRoom]_vars

(***************************************************************************)
(* SegmentManager.allocate_memory_segment and get_segment                  *)
(* (segment_management/segment_manager.py)                                 *)
(***************************************************************************)
\* the numbers the class counter of MemorySegment may start from, drawn at import
SeedIds == SeedIdFirst..(SeedIdFirst + MaxSeedSpread)

\* MemorySegment.name in a run whose counter started from initial_seed_id
SegmentName(s, initial_seed_id) == << s.name, initial_seed_id + s.serial >>

\* the alignment of an instruction (8 bytes, alignment_bits 3), in granules
CODE_MIN_BITS == 0

\* Memory_types mapped to TYPE_CODE and to TYPE_DATA
CodeMemoryTypes == {"bsp_boot_code", "boot_code", "code"}
DataMemoryTypes == {"data_shared", "data_reserved", "stack"}

\* a name as a caller gives it: the text alone, where MemorySegment.name is the text
\* followed by the counter
GivenName(name) == << name >>

\* CodeSegment.__init__ (MemorySegment.__init__): named like a DataSegment
CodeSegment(name, created, mmu, address, pa_address, byte_size, memory_type) ==
    [ name |-> name, serial |-> created + 1, mmu |-> mmu, address |-> address,
      pa_address |-> pa_address, byte_size |-> byte_size, is_cross_core |-> FALSE,
      memory_type |-> memory_type, interval_tracker |-> << >>,
      data_units_list |-> << >> ]

\* the loop at the head of allocate_memory_segment: some segment.name == name
NameExists(segments, name) ==
    \E k \in 1..Len(segments) : \E initial_seed_id \in SeedIds :
        SegmentName(segments[k], initial_seed_id) = name

\* get_segment: the positions of the segments it may return; empty when it raises
GetSegment(segments, segment_name) ==
    LET hits == { k \in 1..Len(segments) : \E initial_seed_id \in SeedIds :
                    SegmentName(segments[k], initial_seed_id) = segment_name }
    IN  IF hits = {} THEN {} ELSE { CHOOSE k \in hits : \A h \in hits : k <= h }

\* allocate_memory_segment on the segment manager of the page table's core:
\* every way the call may end
AllocateMemorySegmentOutcomes(w, t, name, byte_size, memory_type, alignment_bits, VA_eq_PA) ==
    LET mmu == w.page_tables[t]
        page_type == IF memory_type \in DataMemoryTypes THEN "data" ELSE "code"
        bits == IF page_type = "code" /\ (alignment_bits = NoBits \/ alignment_bits < CODE_MIN_BITS)
                  THEN CODE_MIN_BITS ELSE alignment_bits
        pool == GetIntervals(mmu.non_allocated_va_intervals, [page_type |-> page_type])
        Stored(o) ==
            LET allocation == o.world.allocations[Len(o.world.allocations)]
                memory_segment ==
                    IF memory_type \in CodeMemoryTypes
                      THEN CodeSegment(name, o.world.segments_created, mmu.page_table_name,
                                       allocation.va_start, allocation.pa_start,
                                       allocation.size, memory_type)
                      ELSE DataSegment(name, o.world.segments_created, mmu.page_table_name,
                                       allocation.va_start, allocation.pa_start,
                                       allocation.size, FALSE, memory_type)
            IN  IF VA_eq_PA /\ \E i \in 1..Len(allocation.covered_pages) :
                                  allocation.covered_pages[i].va # allocation.covered_pages[i].pa
                  THEN [world |-> o.world, result |-> "CouldNotAllocate"]
                  ELSE [ world |->
                           [ o.world EXCEPT
                               !.memory_segments[mmu.core_id] = Append(@, memory_segment),
                               !.segments_created = @ + 1 ],
                         result |-> "ok" ]
    IN  IF NameExists(w.memory_segments[mmu.core_id], GivenName(name))
          THEN { [world |-> w, result |-> "DuplicateName"] }
        ELSE IF memory_type \notin CodeMemoryTypes \cup DataMemoryTypes
          THEN { [world |-> w, result |-> "InvalidMemoryType"] }
        ELSE IF pool = << >> THEN { [world |-> w, result |-> "NoPool"] }
        ELSE { IF o.result = "ok" THEN Stored(o)
               ELSE [world |-> o.world, result |-> "CouldNotAllocate"] :
                 o \in AllocateSegmentOutcomes(w, t, byte_size, page_type, bits, VA_eq_PA,
                                               SIZE_4K) }

AllocateMemorySegment(mmu_name, name, byte_size, memory_type, alignment_bits, VA_eq_PA) ==
    /\ mmu_name \in Registered(page_tables)
    /\ \E o \in AllocateMemorySegmentOutcomes(World, IndexOf(page_tables, mmu_name), name,
                                              byte_size, memory_type, alignment_bits,
                                              VA_eq_PA) :
          /\ Commit(o.world)
          /\ last' = [op |-> "allocate_memory_segment", result |-> o.result,
                      VA_eq_PA |-> VA_eq_PA]
    /\ UNCHANGED core_page_tables

\* the names given to segments
SegmentNames == {"boot", "stack"}

\* the arguments tried for allocate_memory_segment
MemorySegmentArgs ==
    [ name : SegmentNames, byte_size : 1..MaxSegSize, memory_type : {"code", "stack"},
      alignment_bits : {NoBits}, VA_eq_PA : BOOLEAN ]

\* the calls of main(): page tables, pages, then named segments
NextSegments ==
    \/ \E name \in PageTableNames : \E core_id \in CoreChoices(name) :
          Called /\ CreatePageTable(name, core_id)
    \/ \E name \in PageTableNames, a \in PageArgs :
          Called /\ AllocatePage(name, a.size, a.alignment_bits, a.page_type,
                                 a.sequential_page_count, a.VA_eq_PA)
    \/ \E mmu_name \in PageTableNames, a \in MemorySegmentArgs :
          Called /\ AllocateMemorySegment(mmu_name, a.name, a.byte_size, a.memory_type,
                                          a.alignment_bits, a.VA_eq_PA)

SpecSegments == Init /\ [][NextSegments]_vars

\* page tables and allocate_page calls alone
NextPages ==
    \/ \E name \in PageTableNames : \E core_id \in CoreChoices(name) :
          Called /\ CreatePageTable(name, core_id)
    \/ \E name \in PageTableNames, a \in PageArgs :
          Called /\ AllocatePage(name, a.size, a.alignment_bits, a.page_type,
                                 a.sequential_page_count, a.VA_eq_PA)

SpecPages == Init /\ [][NextPages]_vars

(***************************************************************************)
(* SegmentManager.get_segments and allocate_data_memory                    *)
(* (segment_management/segment_manager.py)                                 *)
(***************************************************************************)
\* get_segments(mmu, pool_type): the positions of the segments of the pool type that
\* belong to the mmu, in list order
GetSegments(segments, mmu, pool_type) ==
    { k \in 1..Len(segments) :
        segments[k].memory_type = pool_type /\ segments[k].mmu = mmu }

\* a call of get_segments with the positional arguments given: both parameters, mmu and
\* pool_type, are required, so a call with fewer raises TypeError; an empty result
\* raises ValueError
GetSegmentsCall(segments, arguments) ==
    IF Len(arguments) < 2 THEN [raised |-> "TypeError", found |-> {}]
    ELSE IF GetSegments(segments, arguments[1], arguments[2]) = {}
      THEN [raised |-> "NoSegments", found |-> {}]
    ELSE [raised |-> NoName, found |-> GetSegments(segments, arguments[1], arguments[2])]

\* DataUnit.__init__: the fields the claims read
DataUnit(name, address, pa_address, segment_offset, byte_size, memory_segment_id) ==
    [ name |-> name, address |-> address, pa_address |-> pa_address,
      segment_offset |-> segment_offset, byte_size |-> byte_size,
      memory_segment_id |-> memory_segment_id ]

\* the outcome of allocate_data_memory that raises
DataMemoryRaised(w, result) == [world |-> w, result |-> result, per_state_data_units |-> << >>]

RECURSIVE MirrorDataUnit(_, _, _, _, _, _, _)
\* the loop over all_other_states from position k: the range is removed from the tracker
\* of the first segment of the other state with the same pa_address and byte_size
MirrorDataUnit(w, others, k, selected_segment, unit, pool_type, units) ==
    IF k > Len(others) THEN [world |-> w, result |-> "ok", per_state_data_units |-> units]
    ELSE LET segments == w.memory_segments[others[k]]
             got == GetSegmentsCall(segments, << pool_type >>)
             matching == { i \in got.found :
                             /\ segments[i].pa_address = selected_segment.pa_address
                             /\ segments[i].byte_size = selected_segment.byte_size }
             first == CHOOSE i \in matching : \A j \in matching : i <= j
             other_va == segments[first].address + unit.segment_offset
             other_unit == DataUnit(<< unit.name, others[k] >>, other_va, unit.pa_address,
                                    unit.segment_offset, unit.byte_size,
                                    segments[first].serial)
         IN  IF got.raised # NoName THEN DataMemoryRaised(w, got.raised)
             ELSE IF matching = {} THEN DataMemoryRaised(w, "NoMatchingSegment")
             ELSE MirrorDataUnit(
                    [ w EXCEPT
                        !.memory_segments[others[k]][first].interval_tracker =
                            RemoveRegion(@, other_va, unit.byte_size),
                        !.memory_segments[others[k]][first].data_units_list =
                            Append(@, other_unit) ],
                    others, k + 1, selected_segment, unit, pool_type,
                    Append(units, [state |-> others[k], data_unit |-> other_unit]))

\* allocate_data_memory on the segment manager of state_name, on the baremetal platform:
\* every way the call may end; order lists the states as get_all_states() does
AllocateDataMemoryOutcomes(w, state_name, name, pool_type, byte_size, has_init_value, alignment, cross_core, order) ==
    LET segments == w.memory_segments[state_name]
        got == GetSegmentsCall(segments, << pool_type >>)
        data_segments == { i \in got.found : segments[i].is_cross_core = cross_core }
        others == SelectSeq(order, LAMBDA c : c # state_name)
        Placed(i, address) ==
            LET unit == DataUnit(name, address,
                                 segments[i].pa_address + (address - segments[i].address),
                                 address - segments[i].address, byte_size,
                                 segments[i].serial)
                taken ==
                    [ w EXCEPT
                        !.memory_segments[state_name][i].interval_tracker =
                            IF pool_type = "data_reserved"
                              THEN RemoveRegion(@, address, byte_size) ELSE @,
                        !.memory_segments[state_name][i].data_units_list =
                            Append(@, unit) ]
                units == << [state |-> state_name, data_unit |-> unit] >>
            IN  IF cross_core
                  THEN MirrorDataUnit(taken, others, 1, segments[i], unit, pool_type, units)
                  ELSE [world |-> taken, result |-> "ok", per_state_data_units |-> units]
        InSegment(i) ==
            LET starts ==
                    IF pool_type = "data_shared"
                      THEN segments[i].address
                             ..(segments[i].address + segments[i].byte_size - byte_size)
                      ELSE FindRegion(segments[i].interval_tracker, byte_size, alignment,
                                      NoCriteria)
            IN  IF starts = {} THEN { DataMemoryRaised(w, "CouldNotAllocate") }
                ELSE { Placed(i, address) : address \in starts }
    IN  IF pool_type \notin {"data_shared", "data_reserved"}
          THEN { DataMemoryRaised(w, "InvalidMemoryType") }
        ELSE IF pool_type = "data_shared" /\ has_init_value
          THEN { DataMemoryRaised(w, "InvalidArgument") }
        ELSE IF got.raised # NoName THEN { DataMemoryRaised(w, got.raised) }
        ELSE IF cross_core /\ pool_type # "data_reserved"
          THEN { DataMemoryRaised(w, "InvalidArgument") }
        ELSE IF data_segments = {} THEN { DataMemoryRaised(w, "IndexError") }
        ELSE UNION { InSegment(i) : i \in data_segments }

AllocateDataMemory(state_name, name, pool_type, byte_size, has_init_value, alignment, cross_core, order) ==
    /\ \E o \in AllocateDataMemoryOutcomes(World, state_name, name, pool_type, byte_size,
                                           has_init_value, alignment, cross_core, order) :
          /\ Commit(o.world)
          /\ last' = [op |-> "allocate_data_memory", result |-> o.result,
                      VA_eq_PA |-> FALSE]
    /\ UNCHANGED core_page_tables

\* the arguments tried for allocate_data_memory
DataMemoryArgs ==
    [ pool_type : {"data_shared", "data_reserved", "code"}, byte_size : {1},
      has_init_value : {FALSE}, alignment : {NoBits}, cross_core : BOOLEAN ]

\* page tables, cross-core pages and segments, then data memory inside the segments
NextData ==
    \/ \E name \in PageTableNames : \E core_id \in CoreChoices(name) :
          Called /\ CreatePageTable(name, core_id)
    \/ Called /\ AllocateCrossCorePage
    \/ \E current_state \in CoreIds, order \in CoreOrders :
          Called /\ AllocateCrossCoreSegment(current_state, order)
    \/ \E state_name \in CoreIds, order \in CoreOrders, a \in DataMemoryArgs :
          Called /\ AllocateDataMemory(state_name, "data_unit", a.pool_type, a.byte_size,
                                       a.has_init_value, a.alignment, a.cross_core, order)

SpecData == Init /\ [][NextData]_vars

(***************************************************************************)
(* Segments inside cross-core pages: allocate_segment on any page table    *)
(* and allocate_cross_core_data_memory_segment, with no allocate_page, so  *)
(* that every segment lies in a cross-core page                            *)
(***************************************************************************)
\* one call more than MaxCalls: two page tables, the cross-core page, a segment of one
\* table and the cross-core segment make five calls
CalledShared == ncalls < MaxCalls + 1 /\ ncalls' = ncalls + 1 /\ UNCHANGED lib_vars

\* the arguments tried for allocate_segment inside a cross-core page
SharedSegmentArgs ==
    [ size : 1..MaxSegSize, page_type : {"data"}, alignment_bits : {NoBits},
      VA_eq_PA : BOOLEAN ]

NextShared ==
    \/ \E name \in PageTableNames : \E core_id \in CoreChoices(name) :
          CalledShared /\ CreatePageTable(name, core_id)
    \/ CalledShared /\ AllocateCrossCorePage
    \/ \E name \in PageTableNames, a \in SharedSegmentArgs :
          CalledShared /\ AllocateSegment(name, a.size, a.page_type, a.alignment_bits,
                                          a.VA_eq_PA)
    \/ \E current_state \in CoreIds, order \in CoreOrders :
          CalledShared /\ AllocateCrossCoreSegment(current_state, order)

SpecShared == Init /\ [][NextShared]_vars

(***************************************************************************)
(* Page tables, pages and segments, with no cross-core segment             *)
(***************************************************************************)
NextMapped ==
    \/ \E name \in PageTableNames : \E core_id \in CoreChoices(name) :
          Called /\ CreatePageTable(name, core_id)
    \/ \E name \in PageTableNames, a \in PageArgs :
          Called /\ AllocatePage(name, a.size, a.alignment_bits, a.page_type,
                                 a.sequential_page_count, a.VA_eq_PA)
    \/ Called /\ AllocateCrossCorePage
    \/ \E name \in PageTableNames, a \in SegmentArgs :
          Called /\ AllocateSegment(name, a.size, a.page_type, a.alignment_bits, a.VA_eq_PA)

SpecMapped == Init /\ [][NextMapped]_vars

(***************************************************************************)
(* Properties                                                              *)
(***************************************************************************)
\* the addresses of the initial VA range and of the initial PA range
RangeSet == MEMORY_RANGE_START..(MEMORY_RANGE_START + MEMORY_RANGE_SIZE - 1)

Tables == 1..Len(page_tables)

\* no two intervals of a list overlap
NoOverlapping(ivs) ==
    \A i, j \in 1..Len(ivs) : i < j => ~Overlaps(ivs[i], ivs[j].start, ivs[j].size)

\* the six collections of the manager and its page tables
world_vars == << page_tables, unmapped_pa_intervals, mapped_pa_intervals,
                 non_allocated_pa_intervals, allocated_pa_intervals, allocations >>

\* C1: in every page table, after any sequence of calls (failing ones included),
\* unmapped_va and mapped_va are disjoint and together cover the initial VA range.
VaPartition ==
    \A t \in Tables :
        /\ Covered(page_tables[t].unmapped_va_intervals)
             \cap Covered(page_tables[t].mapped_va_intervals) = {}
        /\ Covered(page_tables[t].unmapped_va_intervals)
             \cup Covered(page_tables[t].mapped_va_intervals) = RangeSet

\* C2: in every page table, allocated_va and non_allocated_va are disjoint and
\* together cover exactly the addresses of mapped_va.
AllocationPartitionVa ==
    \A t \in Tables :
        /\ Covered(page_tables[t].allocated_va_intervals)
             \cap Covered(page_tables[t].non_allocated_va_intervals) = {}
        /\ Covered(page_tables[t].allocated_va_intervals)
             \cup Covered(page_tables[t].non_allocated_va_intervals)
             = Covered(page_tables[t].mapped_va_intervals)

\* C2, its case: a segment was just allocated in a table that still has free mapped VA,
\* and another table has mapped VA too
SegmentAllocatedInPart ==
    /\ last.op = "allocate_segment" /\ last.result = "ok"
    /\ \E t \in Tables :
          /\ page_tables[t].allocated_va_intervals # << >>
          /\ page_tables[t].non_allocated_va_intervals # << >>
    /\ \A t \in Tables : page_tables[t].mapped_va_intervals # << >>
    /\ Len(page_tables) = 2

\* C3: unmapped_pa and mapped_pa are disjoint and together cover the initial PA range;
\* allocated_pa and non_allocated_pa are disjoint and together cover mapped_pa.
PaPartition ==
    /\ Covered(unmapped_pa_intervals) \cap Covered(mapped_pa_intervals) = {}
    /\ Covered(unmapped_pa_intervals) \cup Covered(mapped_pa_intervals) = RangeSet
    /\ Covered(allocated_pa_intervals) \cap Covered(non_allocated_pa_intervals) = {}
    /\ Covered(allocated_pa_intervals) \cup Covered(non_allocated_pa_intervals)
         = Covered(mapped_pa_intervals)

\* the pages of a list are VA-sequential without gaps and their PA is contiguous
SequentialInVaAndPa(pages) ==
    \A i \in 2..Len(pages) :
        /\ EndVa(pages[i - 1]) + 1 = pages[i].va
        /\ pages[i - 1].pa + pages[i - 1].size = pages[i].pa

\* C4: every allocation's range is covered by gap-free VA-sequential pages of one table
\* whose PA is contiguous, and covered_pages lists exactly the pages of that table that
\* overlap the range.
AllocationsCoveredSequentially ==
    \A k \in 1..Len(allocations) :
        LET a == allocations[k]
            ps == a.covered_pages
        IN  /\ ps # << >>
            /\ SequentialInVaAndPa(ps)
            /\ ps[1].va <= a.va_start
            /\ EndVa(ps[Len(ps)]) >= a.va_start + a.size - 1
            /\ a.pa_start = ps[1].pa + (a.va_start - ps[1].va)
            /\ \E t \in Tables :
                  { ps[i] : i \in 1..Len(ps) } =
                  { p \in { page_tables[t].page_table_entries[i] :
                              i \in 1..Len(page_tables[t].page_table_entries) } :
                      p.va <= a.va_start + a.size - 1 /\ EndVa(p) >= a.va_start }

\* C5: when a page table holds a cross-core page, every registered page table, those
\* created later included, holds exactly one page with the same pa and size.
CrossCorePageEverywhere ==
    \A t \in Tables : \A i \in 1..Len(page_tables[t].page_table_entries) :
        LET p == page_tables[t].page_table_entries[i]
        IN  p.is_cross_core =>
              \A u \in Tables :
                  Cardinality({ j \in 1..Len(page_tables[u].page_table_entries) :
                                  /\ page_tables[u].page_table_entries[j].pa = p.pa
                                  /\ page_tables[u].page_table_entries[j].size = p.size })
                    = 1

\* C6: after allocate_cross_core_page with two or more page tables, no two intervals of
\* mapped_pa overlap and their total size is the initial PA size less the total size of
\* unmapped_pa.
MappedPaCountedOnce ==
    (/\ last.op = "allocate_cross_core_page" /\ last.result = "ok"
     /\ Len(page_tables) >= 2)
    => /\ NoOverlapping(mapped_pa_intervals)
       /\ TotalSize(mapped_pa_intervals)
            = MEMORY_RANGE_SIZE - TotalSize(unmapped_pa_intervals)

\* C7: the VA range of every page lies inside its table's mapped_va and its PA range
\* inside the manager's mapped_pa.
PagesInsideMapped ==
    \A t \in Tables : \A i \in 1..Len(page_tables[t].page_table_entries) :
        LET p == page_tables[t].page_table_entries[i]
        IN  /\ p.va..EndVa(p) \subseteq Covered(page_tables[t].mapped_va_intervals)
            /\ p.pa..(p.pa + p.size - 1) \subseteq Covered(mapped_pa_intervals)

\* C7, its case: a table holds a cross-core page next to a page of its own
CrossCoreAndOwnPage ==
    \E t \in Tables : \E i, j \in 1..Len(page_tables[t].page_table_entries) :
        /\ page_tables[t].page_table_entries[i].is_cross_core
        /\ ~page_tables[t].page_table_entries[j].is_cross_core

\* C8: two distinct pages of one page table have disjoint VA ranges.
PagesDisjointInVa ==
    \A t \in Tables : \A i, j \in 1..Len(page_tables[t].page_table_entries) :
        i < j => \/ EndVa(page_tables[t].page_table_entries[i])
                      < page_tables[t].page_table_entries[j].va
                 \/ EndVa(page_tables[t].page_table_entries[j])
                      < page_tables[t].page_table_entries[i].va

\* C8, its case: a table holds a page mapped VA=PA after a page mapped elsewhere
IdentityPageAfterOther ==
    \E t \in Tables : \E i, j \in 1..Len(page_tables[t].page_table_entries) :
        /\ i < j
        /\ page_tables[t].page_table_entries[i].va # page_tables[t].page_table_entries[i].pa
        /\ page_tables[t].page_table_entries[j].va = page_tables[t].page_table_entries[j].pa
        /\ last.op = "allocate_page" /\ last.result = "ok"

\* C9: a call of allocate_page that fails, the PA step after the VA block was removed
\* included, leaves every interval set and the page list as they were.
FailedAllocatePageChangesNothing ==
    [][(last'.op = "allocate_page" /\ last'.result # "ok") => UNCHANGED world_vars]_vars

\* C10: a call of allocate_cross_core_page that fails because a page table has no free
\* 2 MiB VA block has no effect: the PA block is back and the earlier tables are restored.
FailedCrossCorePageChangesNothing ==
    [][(last'.op = "allocate_cross_core_page" /\ last'.result = "OutOfVA")
         => UNCHANGED world_vars]_vars

\* C11: after any sequence of add_region and remove_region calls of which no
\* add_region overlapped a stored region, the stored intervals are pairwise
\* non-overlapping and no two adjacent ones have equal metadata.
StoredIntervalsNormal ==
    overlaps_added = 0 =>
        \A i, j \in 1..Len(intervals) :
            i # j => /\ \/ intervals[i].start + intervals[i].size <= intervals[j].start
                        \/ intervals[j].start + intervals[j].size <= intervals[i].start
                     /\ ~(/\ intervals[i].start + intervals[i].size = intervals[j].start
                          /\ intervals[i].metadata = intervals[j].metadata)

\* C11, its case: an add_region that overlapped nothing joined two stored intervals,
\* next to an interval of other metadata
AddedBetweenNeighbours ==
    /\ overlaps_added = 0
    /\ lib_last.op = "add_region" /\ lib_last.fresh
    /\ Len(lib_last.before) = 3
    /\ Len(intervals) = 2

\* C12: when find_region(s, a, c) returns (start, size), start is a multiple of 2^a
\* (any value when a is absent), size is s, and one stored interval whose metadata
\* matches c contains [start, start+s).
FoundRegionFits ==
    (lib_last.op = "find_region" /\ lib_last.result.found) =>
        /\ lib_last.alignment_bits # NoBits =>
               lib_last.result.start % (2 ^ lib_last.alignment_bits) = 0
        /\ lib_last.result.size = lib_last.size
        /\ \E k \in 1..Len(intervals) :
               /\ \A key \in DOMAIN Criteria(lib_last.criteria_type) :
                      intervals[k].metadata[key] = Criteria(lib_last.criteria_type)[key]
               /\ intervals[k].start <= lib_last.result.start
               /\ lib_last.result.start + lib_last.size
                      <= intervals[k].start + intervals[k].size

\* C12, its case: an aligned find_region with criteria returned a start past the start
\* of its interval, while an interval of the other type was stored too
AlignedRegionFoundByType ==
    /\ lib_last.op = "find_region" /\ lib_last.result.found
    /\ lib_last.alignment_bits = 1 /\ lib_last.criteria_type # NoName
    /\ \E k \in 1..Len(intervals) : intervals[k].metadata.page_type # lib_last.criteria_type
    /\ \E k \in 1..Len(intervals) :
          /\ intervals[k].metadata.page_type = lib_last.criteria_type
          /\ intervals[k].start < lib_last.result.start

\* the parts of C13 that hold of every list: find_and_remove returns a start that
\* find_region may return and leaves what remove_region(start, size) leaves, with the
\* returned range no longer stored; when find_region finds nothing it fails and
\* the list is unchanged
FindAndRemoveIsFindThenRemove ==
    LET b == lib_last.before
        starts == FindRegion(b, lib_last.size, lib_last.alignment_bits,
                             Criteria(lib_last.criteria_type))
        r == lib_last.result
    IN  IF starts = {} THEN ~r.found /\ intervals = b
        ELSE /\ r.found /\ r.start \in starts /\ r.size = lib_last.size
             /\ intervals = RemoveRegion(b, r.start, lib_last.size)
             /\ Covered(intervals) \cap (r.start..(r.start + r.size - 1)) = {}

\* C13 as amended: find_and_remove behaves as find_region followed by remove_region at
\* the returned start; on success the returned range is no longer stored and, when no
\* two stored intervals overlapped, the total size drops by exactly size; when
\* find_region finds nothing it fails and the set is unchanged.
FindAndRemoveDropsSizeWithoutOverlap ==
    lib_last.op = "find_and_remove" =>
        /\ FindAndRemoveIsFindThenRemove
        /\ (lib_last.result.found /\ NoOverlapping(lib_last.before)) =>
               TotalSize(intervals) = TotalSize(lib_last.before) - lib_last.size

\* C13: find_and_remove behaves as find_region followed by remove_region at the
\* returned start; on success the total size of the set drops by exactly size and the
\* returned range is no longer stored; when find_region finds nothing it fails and the
\* set is unchanged.
FindAndRemoveDropsSize ==
    lib_last.op = "find_and_remove" =>
        /\ FindAndRemoveIsFindThenRemove
        /\ lib_last.result.found =>
               TotalSize(intervals) = TotalSize(lib_last.before) - lib_last.size

\* C13, its case: an aligned find_and_remove with criteria took its range out of the
\* middle of a list of several intervals none of which overlapped
RemovedFoundRegion ==
    /\ lib_last.op = "find_and_remove" /\ lib_last.result.found
    /\ lib_last.criteria_type # NoName
    /\ Len(lib_last.before) >= 2 /\ NoOverlapping(lib_last.before)
    /\ Len(intervals) > Len(lib_last.before)

IdentityPageOutcomes ==
    UNION { { [t |-> t, a |-> a, world |-> o.world] :
                o \in { x \in AllocatePageOutcomes(World, t, a.size, a.alignment_bits,
                                                   a.page_type, a.sequential_page_count,
                                                   TRUE) : x.result = "ok" } } :
            t \in 1..Len(page_tables), a \in { b \in PageArgs : b.VA_eq_PA } }

\* the Pages a call of allocate_page appended to page table t
CreatedPages(t, world) ==
    SubSeq(world.page_tables[t].page_table_entries,
           Len(page_tables[t].page_table_entries) + 1,
           Len(world.page_tables[t].page_table_entries))

\* the alignment_bits allocate_page works with: those of the page size when absent
EffectiveBits(a) == IF a.alignment_bits = NoBits THEN DefaultBits(a.size) ELSE a.alignment_bits

\* the Pages of a successful allocate_page(VA_eq_PA=true) have va == pa and lie inside
\* the initial range, over a range taken from unmapped_va and unmapped_pa
IdentityPagesTaken(o) ==
    LET pages == CreatedPages(o.t, o.world)
        range == pages[1].va..(pages[1].va + o.a.size * Len(pages) - 1)
    IN  /\ Len(pages) = o.a.sequential_page_count
        /\ \A i \in 1..Len(pages) :
              /\ pages[i].va = pages[i].pa
              /\ pages[i].va = pages[1].va + (i - 1) * o.a.size
              /\ pages[i].va..EndVa(pages[i]) \subseteq RangeSet
        /\ range \subseteq Covered(page_tables[o.t].unmapped_va_intervals)
        /\ range \subseteq Covered(unmapped_pa_intervals)
        /\ range \cap Covered(o.world.page_tables[o.t].unmapped_va_intervals) = {}
        /\ range \cap Covered(o.world.unmapped_pa_intervals) = {}

\* C14 as amended: a successful allocate_page with VA_eq_PA=true creates Pages with
\* va == pa, the first aligned to 2^alignment_bits and every one to its page size,
\* inside the initial range, over a range that was in both this page table's unmapped_va
\* and the manager's unmapped_pa before the call and is in neither afterwards.
IdentityPagesFirstAligned ==
    \A o \in IdentityPageOutcomes :
        /\ IdentityPagesTaken(o)
        /\ CreatedPages(o.t, o.world)[1].va % (2 ^ EffectiveBits(o.a)) = 0
        /\ \A i \in 1..o.a.sequential_page_count :
              CreatedPages(o.t, o.world)[i].va % (2 ^ DefaultBits(o.a.size)) = 0

\* C14: a successful allocate_page with VA_eq_PA=true creates Pages with va == pa,
\* aligned to 2^alignment_bits and inside the initial range, over a range that was in
\* both this page table's unmapped_va and the manager's unmapped_pa before the call and
\* is in neither afterwards.
IdentityPagesAllAligned ==
    \A o \in IdentityPageOutcomes :
        /\ IdentityPagesTaken(o)
        /\ \A i \in 1..o.a.sequential_page_count :
              CreatedPages(o.t, o.world)[i].va % (2 ^ EffectiveBits(o.a)) = 0

\* C14, its case: allocate_page(VA_eq_PA=true) has created two sequential 4 KiB pages
\* with va == pa in a page table that had a page of its own before
SequentialIdentityPagesCreated ==
    /\ last.op = "allocate_page" /\ last.result = "ok" /\ last.VA_eq_PA
    /\ \E t \in 1..Len(page_tables) :
          LET pages == page_tables[t].page_table_entries
          IN  /\ Len(pages) = 3
              /\ pages[2].va = pages[2].pa /\ pages[2].size = SIZE_4K
              /\ pages[3].va = pages[3].pa /\ pages[3].va = pages[2].va + SIZE_4K
              /\ pages[1].va # pages[1].pa

\* the calls of allocate_segment that can be made in the present state
SegmentCalls == { [t |-> t, a |-> a] : t \in 1..Len(page_tables), a \in SegmentArgs }

\* every way the call c of allocate_segment may end from the present state
SegmentOutcomes(c) ==
    AllocateSegmentOutcomes(World, c.t, c.a.size, c.a.page_type, c.a.alignment_bits,
                            c.a.VA_eq_PA, SIZE_4K)

\* the MemoryAllocation a successful call recorded
Recorded(o) == o.world.allocations[Len(o.world.allocations)]

\* C15: every allocation returned by a non-identity allocate_segment of page_type T lies
\* inside a non_allocated_va interval whose page_type is T, so every Page it covers has
\* page_type T.
SegmentPlacedInItsType ==
    \A c \in { x \in SegmentCalls : ~x.a.VA_eq_PA } :
        \A o \in { x \in SegmentOutcomes(c) : x.result = "ok" } :
            LET free == page_tables[c.t].non_allocated_va_intervals
            IN  /\ \E k \in 1..Len(free) :
                      /\ free[k].metadata.page_type = c.a.page_type
                      /\ Contains(free[k], Recorded(o).va_start, Recorded(o).size)
                /\ \A i \in 1..Len(Recorded(o).covered_pages) :
                      Recorded(o).covered_pages[i].page_type = c.a.page_type

\* C16: allocate_segment for page_type T fails with NoAvailableMappedRegion, changing no
\* interval set and recording no MemoryAllocation, whenever the page table's
\* non_allocated_va has no interval of page_type T, even if non-allocated space of
\* another page type is available.
NoSegmentWithoutItsType ==
    \A c \in SegmentCalls :
        GetIntervals(page_tables[c.t].non_allocated_va_intervals,
                     [page_type |-> c.a.page_type]) = << >>
          => \A o \in SegmentOutcomes(c) :
                 o.result = "NoAvailableMappedRegion" /\ o.world = World

\* the Pages that overlap [va_start, va_start + size) are absent, leave a VA gap, do not
\* cover the whole range, or are not PA-contiguous
BadlyCovered(tbl, va_start, size) ==
    LET pages == SortByVa(OverlappingPages(tbl.page_table_entries, va_start,
                                           va_start + size - 1))
    IN  \/ pages = << >>
        \/ \E i \in 2..Len(pages) : EndVa(pages[i - 1]) + 1 # pages[i].va
        \/ ~((va_start..(va_start + size - 1))
               \subseteq UNION { pages[i].va..EndVa(pages[i]) : i \in 1..Len(pages) })
        \/ \E i \in 2..Len(pages) : pages[i - 1].pa + pages[i - 1].size # pages[i].pa

\* C17: when the Pages of the page table that overlap the chosen range
\* [va_start, va_start+size) are absent, leave a VA gap, do not cover the whole range, or
\* are not PA-contiguous, allocate_segment fails with PageTableInconsistent and leaves
\* allocated_va, non_allocated_va, allocated_pa, non_allocated_pa and the allocation
\* list unchanged.
BadlyCoveredSegmentFails ==
    \A c \in { x \in SegmentCalls : ~x.a.VA_eq_PA } :
        \A va \in FindRegion(page_tables[c.t].non_allocated_va_intervals, c.a.size,
                             c.a.alignment_bits, RegularCriteria(c.a.page_type)) :
            BadlyCovered(page_tables[c.t], va, c.a.size)
              => LET o == AllocateSegmentRegularAt(World, c.t, va, c.a.size, c.a.page_type,
                                                   c.a.alignment_bits)
                 IN  o.result = "PageTableInconsistent" /\ o.world = World

\* the successful ends of allocate_cross_core_data_memory_segment from the present state
CrossCoreSegmentOutcomes ==
    UNION { { o \in AllocateCrossCoreSegmentOutcomes(World, core_page_tables,
                                                     current_state, order) :
                o.result = "ok" } :
            current_state \in { c \in CoreIds : core_page_tables[c] # << >> },
            order \in CoreOrders }

\* the segments a call appended to the segment managers
CreatedSegments(world) ==
    UNION { { world.memory_segments[c][k] :
                k \in (Len(memory_segments[c]) + 1)..Len(world.memory_segments[c]) } :
            c \in CoreIds }

\* how many of the intervals of a list hold address x
TimesStored(ivs, x) == Cardinality({ k \in 1..Len(ivs) : Contains(ivs[k], x, 1) })

\* one DataSegment was created in every registered page table, all with the same
\* pa_address, the size and alignment of the cross-core segment and is_cross_core set,
\* each at its table's cross-core page VA plus a common offset
OneSegmentPerTable(o) ==
    /\ Cardinality(CreatedSegments(o.world)) = Len(page_tables)
    /\ \A name \in Registered(page_tables) :
          \E s \in CreatedSegments(o.world) : s.mmu = name
    /\ \A s, u \in CreatedSegments(o.world) : s.pa_address = u.pa_address
    /\ \A s \in CreatedSegments(o.world) :
          /\ s.byte_size = CROSS_CORE_SEGMENT_SIZE
          /\ s.is_cross_core
          /\ s.address % (2 ^ CROSS_CORE_SEGMENT_BITS) = 0
          /\ s.pa_address % (2 ^ CROSS_CORE_SEGMENT_BITS) = 0
    /\ \E page_offset \in 0..(SIZE_2M - 1) :
          \A s \in CreatedSegments(o.world) :
              LET pages == CrossCorePages(page_tables[IndexOf(page_tables, s.mmu)])
              IN  \E i \in 1..Len(pages) :
                      /\ s.address = pages[i].va + page_offset
                      /\ s.pa_address = pages[i].pa + page_offset

\* the PA range of the created segments was in non_allocated_pa and not in
\* allocated_pa before the call, and is in allocated_pa, once, and not in
\* non_allocated_pa after it
PaMovedOnce(o) ==
    \A s \in CreatedSegments(o.world) :
        \A x \in s.pa_address..(s.pa_address + s.byte_size - 1) :
            /\ x \in Covered(non_allocated_pa_intervals)
            /\ x \notin Covered(allocated_pa_intervals)
            /\ x \notin Covered(o.world.non_allocated_pa_intervals)
            /\ TimesStored(o.world.allocated_pa_intervals, x) = 1

\* C18: after allocate_cross_core_page, a successful
\* allocate_cross_core_data_memory_segment creates exactly one DataSegment in every
\* registered page table; all of them have the same pa_address, size 2 KiB,
\* 16-byte-aligned addresses and is_cross_core set, each local VA equals that table's
\* cross-core page VA plus the common page offset, and the 2 KiB PA range is moved from
\* non_allocated_pa to allocated_pa exactly once.
CrossCoreSegmentInEveryTable ==
    \A o \in CrossCoreSegmentOutcomes : OneSegmentPerTable(o) /\ PaMovedOnce(o)

\* the Pages of every page table and the segments of every segment manager, in a run
\* whose counter started from initial_seed_id
Inventory(initial_seed_id) ==
    [ pages |-> [ t \in 1..Len(page_tables) |-> page_tables[t].page_table_entries ],
      segments |->
          [ c \in CoreIds |->
              [ k \in 1..Len(memory_segments[c]) |->
                  [ name |-> SegmentName(memory_segments[c][k], initial_seed_id),
                    address |-> memory_segments[c][k].address,
                    pa_address |-> memory_segments[c][k].pa_address,
                    size |-> memory_segments[c][k].byte_size ] ] ] ]

\* C19: two runs that start from the same PRNG seed and issue the same sequence of
\* calls produce identical results: the same Pages (va, pa, size, type) in every page
\* table and the same segments (name, address, pa_address, size) in every segment
\* manager. Two such runs make the same draws after seeding and reach the same state;
\* they differ in the number drawn at import.
SeededRunsAgree ==
    \A first, second \in SeedIds : Inventory(first) = Inventory(second)

\* how many intervals of a list hold address x with the given metadata
HeldTimes(ivs, x, metadata) ==
    Cardinality({ k \in 1..Len(ivs) : Contains(ivs[k], x, 1) /\ ivs[k].metadata = metadata })

\* C21: remove_region(start, size) with size > 0 never fails and leaves stored exactly
\* the addresses that were stored before and lie outside [start, start+size), each
\* keeping the metadata of the interval it came from; it returns true exactly when at
\* least one stored address was removed.
RemoveRegionKeepsTheRest ==
    \A r \in { x \in LibRegions : x.size > 0 } :
        LET after == RemoveRegion(intervals, r.start, r.size)
            range == r.start..(r.start + r.size - 1)
        IN  /\ \A x \in 0..(MaxAddr - 1), metadata \in LibMetas :
                  HeldTimes(after, x, metadata)
                    = IF x \in range THEN 0 ELSE HeldTimes(intervals, x, metadata)
            /\ \A k \in 1..Len(after) : after[k].size > 0
            /\ Len(after) <= Len(intervals) + Cardinality({ k \in 1..Len(intervals) :
                                                              Contains(intervals[k], r.start, r.size) })
            /\ RemoveRegionModified(intervals, r.start, r.size)
                 <=> (Covered(intervals) \cap range # {})

\* C21, its case: remove_region took a range out of the middle of a stored interval,
\* which it split in two, and returned true
RemovedFromTheMiddle ==
    /\ lib_last.op = "remove_region" /\ lib_last.result.found /\ ~lib_last.fresh
    /\ \E i, j \in 1..Len(intervals) :
          /\ End(intervals[i]) = lib_last.start
          /\ intervals[j].start = lib_last.start + lib_last.size
          /\ intervals[i].metadata = intervals[j].metadata

\* the starts p, multiples of 2^alignment_bits when it is given, with [p, p+size) inside
\* one stored interval that matches the criteria
FittingStarts(ivs, size, alignment_bits, criteria_type) ==
    { p \in 0..MaxAddr :
        /\ alignment_bits # NoBits => p % (2 ^ alignment_bits) = 0
        /\ \E k \in 1..Len(ivs) :
              /\ criteria_type # NoName => ivs[k].metadata.page_type = criteria_type
              /\ ivs[k].start <= p /\ p + size <= ivs[k].start + ivs[k].size }

\* C29: find_region(size > 0, alignment_bits, criteria) returns none exactly when no
\* stored interval matching criteria contains a start p, multiple of 2^alignment_bits,
\* with [p, p+size) inside it; otherwise every such position in every matching interval
\* (every byte position when unaligned) is a possible result and nothing else is.
FindRegionOffersEveryFit ==
    \A size \in 1..MaxLibSize, alignment_bits \in {NoBits} \cup 0..2,
       criteria_type \in PageTypes \cup {NoName} :
        LET fitting == FittingStarts(intervals, size, alignment_bits, criteria_type)
            results == FindRegionResults(intervals, size, alignment_bits,
                                         Criteria(criteria_type))
        IN  IF fitting = {} THEN results = { Returned(FALSE, 0, 0) }
            ELSE results = { Returned(TRUE, p, size) : p \in fitting }

\* C29, its case: find_region returned a start inside an interval that comes after
\* another stored interval in which the request fits as well
FoundInLaterInterval ==
    /\ lib_last.op = "find_region" /\ lib_last.result.found
    /\ \E j, k \in 1..Len(intervals) :
          /\ j < k
          /\ Contains(intervals[k], lib_last.result.start, lib_last.size)
          /\ ~Contains(intervals[j], lib_last.result.start, lib_last.size)
          /\ j \in SuitableIntervals(intervals, lib_last.size,
                                     AlignmentOf(lib_last.alignment_bits),
                                     Criteria(lib_last.criteria_type))

\* split_region failed and left the list as it was
SplitRegionFailed == ~lib_last.result.found /\ intervals = lib_last.before

\* split_region returned [start, start+size) with the metadata of a stored interval that
\* contained it, and took the range out of one interval of that metadata, every other
\* stored address staying stored with its metadata
SplitRegionTookRange ==
    LET b == lib_last.before
        range == lib_last.start..(lib_last.start + lib_last.size - 1)
    IN  /\ lib_last.result = Returned(TRUE, lib_last.start, lib_last.size)
        /\ \E k \in 1..Len(b) : /\ Contains(b[k], lib_last.start, lib_last.size)
                                /\ b[k].metadata = lib_last.metadata
        /\ \A x \in 0..(MaxAddr - 1), metadata \in LibMetas :
              HeldTimes(intervals, x, metadata)
                = HeldTimes(b, x, metadata)
                    - (IF x \in range /\ metadata = lib_last.metadata THEN 1 ELSE 0)

ContainsRegionOfPositiveSize ==
    lib_last.op = "contains_region" =>
        lib_last.result.found
          <=> \/ lib_last.size <= 0
              \/ \E k \in 1..Len(intervals) :
                    /\ lib_last.criteria_type # NoName =>
                           intervals[k].metadata.page_type = lib_last.criteria_type
                    /\ intervals[k].start <= lib_last.start
                    /\ lib_last.start + lib_last.size
                           <= intervals[k].start + intervals[k].size

\* C23: contains_region(start, size, criteria) returns true if and only if one single
\* stored interval, matching criteria when given, fully contains [start, start+size);
\* in particular it returns false on an empty set for every start and size.
ContainsRegionIffContained ==
    lib_last.op = "contains_region" =>
        /\ lib_last.result.found
             <=> \E k \in 1..Len(intervals) :
                    /\ lib_last.criteria_type # NoName =>
                           intervals[k].metadata.page_type = lib_last.criteria_type
                    /\ intervals[k].start <= lib_last.start
                    /\ lib_last.start + lib_last.size
                           <= intervals[k].start + intervals[k].size
        /\ intervals = << >> => ~lib_last.result.found

\* C23, its case: contains_region returned false for a range that an interval of the
\* other type contains, and that no interval of the asked type contains
NotContainedInItsType ==
    /\ lib_last.op = "contains_region" /\ ~lib_last.result.found
    /\ lib_last.size > 0 /\ lib_last.criteria_type # NoName
    /\ \E k \in 1..Len(intervals) :
          /\ Contains(intervals[k], lib_last.start, lib_last.size)
          /\ intervals[k].metadata.page_type # lib_last.criteria_type

\* the segments of a core that allocate_memory_segment stored
NamedSegments(c) == SelectSeq(memory_segments[c], LAMBDA s : ~s.is_cross_core)

\* C24: a segment manager holds no two segments created under the same given name (a
\* second allocate_memory_segment with a used name fails and stores nothing), and
\* get_segment(name) returns the segment that was created under that name.
NamedSegmentsDistinctAndFound ==
    \A c \in CoreIds :
        /\ \A i, j \in 1..Len(NamedSegments(c)) :
              NamedSegments(c)[i].name = NamedSegments(c)[j].name => i = j
        /\ \A k \in 1..Len(memory_segments[c]) :
              ~memory_segments[c][k].is_cross_core
                  => GetSegment(memory_segments[c], GivenName(memory_segments[c][k].name))
                       = {k}

\* a second segment was stored under a name its manager already held
SameNameStoredTwice ==
    /\ last.op = "allocate_memory_segment" /\ last.result = "ok"
    /\ \E c \in CoreIds : \E i, j \in 1..Len(memory_segments[c]) :
          i # j /\ memory_segments[c][i].name = memory_segments[c][j].name


\* the PA sets of the manager
PaSets ==
    << unmapped_pa_intervals, mapped_pa_intervals, non_allocated_pa_intervals,
       allocated_pa_intervals >>

\* how many times a name stands in a list of names
Occurrences(names, name) == Cardinality({ k \in 1..Len(names) : names[k] = name })

\* C25: create_page_table with a registered name fails with DuplicateName and leaves the
\* registered tables, the names of every core and every interval set as they were; with
\* a new name it registers a fresh table under the name and adds the name once to the
\* list of its core, leaving the PA sets and the other tables as they were.
CreatePageTableRegistersOnce ==
    [][\A name \in PageTableNames, core_id \in CoreIds :
          CreatePageTable(name, core_id) =>
              IF name \in Registered(page_tables)
                THEN /\ last'.result = "DuplicateName"
                     /\ UNCHANGED << page_tables, core_page_tables, PaSets >>
                ELSE /\ last'.result = "ok"
                     /\ Len(page_tables') = Len(page_tables) + 1
                     /\ \A t \in 1..Len(page_tables) : page_tables'[t] = page_tables[t]
                     /\ page_tables'[Len(page_tables')] = PageTable(name, core_id)
                     /\ Occurrences(core_page_tables'[core_id], name) = 1
                     /\ core_page_tables'[core_id] = Append(core_page_tables[core_id], name)
                     /\ \A c \in CoreIds \ {core_id} :
                           core_page_tables'[c] = core_page_tables[c]
                     /\ UNCHANGED PaSets]_vars

\* a known name was refused while pages were mapped
KnownNameRefusedAfterMapping ==
    /\ last.op = "create_page_table" /\ last.result = "DuplicateName"
    /\ mapped_pa_intervals # << >>
    /\ Len(page_tables) = 2

\* log2 of a page size, in granules
Log2OfSize(size) == CHOOSE b \in 0..BITS_1G : Pow2(b) = size

\* the arguments of allocate_page the claim C26 names: no page_type, a 1 GiB size, or
\* a supplied alignment_bits below log2(size)
RejectedPageArgs ==
    { a \in [ size : PageSizes \cup {SIZE_1G}, alignment_bits : {NoBits, BITS_4K, BITS_2M},
              page_type : PageTypes \cup {NoName}, sequential_page_count : 1..MaxSeq,
              VA_eq_PA : BOOLEAN ] :
        \/ a.page_type = NoName
        \/ a.size = SIZE_1G
        \/ a.alignment_bits # NoBits /\ a.alignment_bits < Log2OfSize(a.size) }

\* C26: allocate_page called without a page_type, with the 1 GiB size, or with a supplied
\* alignment_bits smaller than log2(size) fails, and no interval set and no page list
\* is changed by the call.
RejectedPageChangesNothing ==
    \A t \in 1..Len(page_tables), a \in RejectedPageArgs :
        \A o \in AllocatePageOutcomes(World, t, a.size, a.alignment_bits, a.page_type,
                                      a.sequential_page_count, a.VA_eq_PA) :
            /\ o.result \in {"InvalidArgument", "InvalidAlignment"}
            /\ o.world = World

\* a call with too small an alignment was refused after pages had been mapped
SmallAlignmentRefusedAfterMapping ==
    /\ last.op = "allocate_page" /\ last.result = "InvalidAlignment"
    /\ \E t \in 1..Len(page_tables) : page_tables[t].page_table_entries # << >>

RECURSIVE PagesSize(_)
\* the sum of the sizes of a list of Pages
PagesSize(pages) == IF pages = << >> THEN 0 ELSE Head(pages).size + PagesSize(Tail(pages))

\* C27: after any sequence of allocate_page calls, successful or failing, the total
\* size of mapped_va of a page table equals the sum of the sizes of its Pages and
\* equals the initial VA size minus the total size of its unmapped_va.
MappedSizeIsPagesSize ==
    \A t \in 1..Len(page_tables) :
        /\ TotalSize(page_tables[t].mapped_va_intervals)
             = PagesSize(page_tables[t].page_table_entries)
        /\ TotalSize(page_tables[t].mapped_va_intervals)
             = MEMORY_RANGE_SIZE - TotalSize(page_tables[t].unmapped_va_intervals)

\* the VA addresses of page table t, and the PA addresses, that a kind of set stores
VaIn(tables, t, kind) == Covered(tables[t][kind])

\* a mapped address is not stored as unmapped after the step: VA of every table, PA
MappedStaysOutOfUnmapped ==
    /\ \A t \in 1..Len(page_tables) :
          VaIn(page_tables, t, "mapped_va_intervals")
            \cap VaIn(page_tables', t, "unmapped_va_intervals") = {}
    /\ Covered(mapped_pa_intervals) \cap Covered(unmapped_pa_intervals') = {}

\* an allocated address is not stored as non_allocated after the step
AllocatedStaysOutOfNonAllocated ==
    /\ \A t \in 1..Len(page_tables) :
          VaIn(page_tables, t, "allocated_va_intervals")
            \cap VaIn(page_tables', t, "non_allocated_va_intervals") = {}
    /\ Covered(allocated_pa_intervals) \cap Covered(non_allocated_pa_intervals') = {}

\* an address allocated by the step was mapped and non_allocated before it
AllocatedFromMappedNonAllocated ==
    /\ \A t \in 1..Len(page_tables) :
          VaIn(page_tables', t, "allocated_va_intervals")
              \ VaIn(page_tables, t, "allocated_va_intervals")
            \subseteq VaIn(page_tables, t, "mapped_va_intervals")
                        \cap VaIn(page_tables, t, "non_allocated_va_intervals")
    /\ Covered(allocated_pa_intervals') \ Covered(allocated_pa_intervals)
         \subseteq Covered(mapped_pa_intervals) \cap Covered(non_allocated_pa_intervals)

\* the Pages a page table holds keep their va and pa
PagesStayInPlace ==
    \A t \in 1..Len(page_tables) :
        \A i \in 1..Len(page_tables[t].page_table_entries) :
            /\ i <= Len(page_tables'[t].page_table_entries)
            /\ page_tables'[t].page_table_entries[i].va = page_tables[t].page_table_entries[i].va
            /\ page_tables'[t].page_table_entries[i].pa = page_tables[t].page_table_entries[i].pa

\* C28: over any sequence of operations a VA byte of a page table or a PA byte that is
\* mapped never returns to unmapped, an allocated byte never returns to non_allocated, a
\* byte becomes allocated only while it is mapped and non_allocated, and the va and pa
\* of an existing Page never change.
RegionsOnlyMoveForward ==
    [][/\ MappedStaysOutOfUnmapped
       /\ AllocatedStaysOutOfNonAllocated
       /\ AllocatedFromMappedNonAllocated
       /\ PagesStayInPlace]_vars

\* C30: a successful allocate_page with sequential_page_count = n appends exactly n
\* Pages to the page table and to the index of their page_type; page i lies at
\* va_start + i*size and pa_start + i*size, every va and pa is a multiple of the page
\* size, every Page carries the execution_context of the page table; the call returns
\* the Page when n = 1 and the list of the n Pages otherwise.
SequentialPagesAppended ==
    \A t \in 1..Len(page_tables), a \in PageArgs :
        \A o \in AllocatePageOutcomes(World, t, a.size, a.alignment_bits, a.page_type,
                                      a.sequential_page_count, a.VA_eq_PA) :
            o.result = "ok" =>
                LET old == page_tables[t].page_table_entries
                    new == o.world.page_tables[t].page_table_entries
                    n == a.sequential_page_count
                    added == SubSeq(new, Len(old) + 1, Len(new))
                IN  /\ Len(new) = Len(old) + n
                    /\ SubSeq(new, 1, Len(old)) = old
                    /\ \A page_type \in PageTypes :
                          o.world.page_tables[t].page_table_entries_by_type[page_type]
                            = page_tables[t].page_table_entries_by_type[page_type]
                                \o (IF page_type = a.page_type THEN added ELSE << >>)
                    /\ \A i \in 1..n :
                          /\ added[i].va = added[1].va + (i - 1) * a.size
                          /\ added[i].pa = added[1].pa + (i - 1) * a.size
                          /\ added[i].va % a.size = 0
                          /\ added[i].pa % a.size = 0
                          /\ added[i].size = a.size
                          /\ added[i].page_type = a.page_type
                          /\ added[i].execution_context = page_tables[t].execution_context
                    /\ o.returned = IF n = 1 THEN added[1] ELSE added

\* two sequential 2 MiB pages were appended to the page table of EL1_NS
TwoSequentialPagesAppended ==
    /\ last.op = "allocate_page" /\ last.result = "ok"
    /\ \E t \in 1..Len(page_tables) :
          LET pages == page_tables[t].page_table_entries
          IN  /\ page_tables[t].execution_context = "EL1_NS"
              /\ Len(pages) = 2
              /\ pages[1].size = SIZE_2M
              /\ pages[2].va = pages[1].va + SIZE_2M
              /\ pages[2].pa = pages[1].pa + SIZE_2M
              /\ page_tables[t].page_table_entries_by_type[pages[1].page_type] = pages

\* the addresses of [start, start+size)
Range(start, size) == start..(start + size - 1)

\* C31: a successful non-identity allocate_segment returning (va_start, pa_start, size)
\* has pa_start = P.pa + (va_start - P.va) for the Page P containing va_start, has
\* va_start and pa_start multiples of 2^alignment_bits, moves exactly
\* [va_start, va_start+size) from non_allocated_va to allocated_va and exactly
\* [pa_start, pa_start+size) from non_allocated_pa to allocated_pa, and appends exactly
\* one MemoryAllocation.
RegularSegmentMovesItsRanges ==
    \A c \in { x \in SegmentCalls : ~x.a.VA_eq_PA } :
        \A o \in { x \in SegmentOutcomes(c) : x.result = "ok" } :
            LET tbl == page_tables[c.t]
                after == o.world.page_tables[c.t]
                va == Recorded(o).va_start
                pa == Recorded(o).pa_start
                size == Recorded(o).size
            IN  /\ size = c.a.size
                /\ \E i \in 1..Len(tbl.page_table_entries) :
                      LET P == tbl.page_table_entries[i]
                      IN  /\ P.va <= va /\ va <= EndVa(P)
                          /\ pa = P.pa + (va - P.va)
                /\ c.a.alignment_bits # NoBits =>
                      /\ va % Pow2(c.a.alignment_bits) = 0
                      /\ pa % Pow2(c.a.alignment_bits) = 0
                /\ Range(va, size) \subseteq Covered(tbl.non_allocated_va_intervals)
                /\ Range(va, size) \cap Covered(tbl.allocated_va_intervals) = {}
                /\ Covered(after.non_allocated_va_intervals)
                     = Covered(tbl.non_allocated_va_intervals) \ Range(va, size)
                /\ Covered(after.allocated_va_intervals)
                     = Covered(tbl.allocated_va_intervals) \cup Range(va, size)
                /\ Range(pa, size) \subseteq Covered(non_allocated_pa_intervals)
                /\ Range(pa, size) \cap Covered(allocated_pa_intervals) = {}
                /\ Covered(o.world.non_allocated_pa_intervals)
                     = Covered(non_allocated_pa_intervals) \ Range(pa, size)
                /\ Covered(o.world.allocated_pa_intervals)
                     = Covered(allocated_pa_intervals) \cup Range(pa, size)
                /\ Len(o.world.allocations) = Len(allocations) + 1
                /\ SubSeq(o.world.allocations, 1, Len(allocations)) = allocations

\* the page holds an aligned range of byte_size addresses inside a DATA interval of
\* the non_allocated_va list
AlignedRoomInPage(ivs, page, byte_size, alignment) ==
    \E k \in 1..Len(ivs) : \E va \in page.va..EndVa(page) :
        /\ ivs[k].metadata.page_type = "data"
        /\ va % alignment = 0
        /\ va + byte_size - 1 <= EndVa(page)
        /\ Contains(ivs[k], va, byte_size)

\* C32: allocate_cross_core_data_memory_segment fails with NoCrossCoreRoom exactly when
\* the selected cross-core page has no aligned range of the segment's size inside the
\* non_allocated_va of type DATA of the initiating page table; when some non-allocated
\* interval of the page holds such a range, the call finds one.
RoomFoundWhenThereIsRoom ==
    \A r \in CrossCoreRoom([non_allocated_va_intervals |-> intervals], RoomPage,
                           CROSS_CORE_SEGMENT_SIZE, Pow2(ROOM_ALIGNMENT_BITS)) :
        r.found <=> AlignedRoomInPage(intervals, RoomPage, CROSS_CORE_SEGMENT_SIZE,
                                      Pow2(ROOM_ALIGNMENT_BITS))

\* the DATA_PRESERVE segments of a segment manager with the given is_cross_core
PreserveSegments(segments, cross_core) ==
    { i \in 1..Len(segments) :
        segments[i].memory_type = "data_reserved" /\ segments[i].is_cross_core = cross_core }

\* the tracker of the segment has a free range of the size and alignment
HasFreeRange(segment, byte_size, alignment) ==
    FindRegion(segment.interval_tracker, byte_size, alignment, NoCriteria) # {}

\* the segment of a segment manager that holds the data unit as its last one
HolderOf(segments, unit) ==
    { i \in 1..Len(segments) :
        /\ segments[i].data_units_list # << >>
        /\ segments[i].data_units_list[Len(segments[i].data_units_list)] = unit }

CrossCoreDataMirrored ==
    \A state_name \in CoreIds, order \in CoreOrders :
      LET segments == memory_segments[state_name]
          kind == PreserveSegments(segments, TRUE)
      IN  (kind # {} /\ \A i \in kind : HasFreeRange(segments[i], 1, NoBits)) =>
            \A o \in AllocateDataMemoryOutcomes(World, state_name, "data_unit",
                                                "data_reserved", 1, FALSE, NoBits,
                                                TRUE, order) :
              /\ { o.per_state_data_units[n].state :
                     n \in 1..Len(o.per_state_data_units) } = CoreIds
              /\ \A n \in 1..Len(o.per_state_data_units) :
                    LET mine == o.per_state_data_units[1].data_unit
                        theirs == o.per_state_data_units[n].data_unit
                        other == o.world.memory_segments[o.per_state_data_units[n].state]
                    IN  /\ theirs.pa_address = mine.pa_address
                        /\ theirs.segment_offset = mine.segment_offset
                        /\ \A k \in PreserveSegments(other, TRUE) :
                              other[k].pa_address + theirs.segment_offset
                                  = theirs.pa_address
                                /\ other[k].byte_size
                                  = segments[CHOOSE i \in kind :
                                               segments[i].serial
                                                 = mine.memory_segment_id].byte_size
                                => Range(other[k].address + theirs.segment_offset,
                                         theirs.byte_size)
                                     \cap Covered(other[k].interval_tracker) = {}

\* the list is in ascending order of start
AscendingByStart(ivs) ==
    \A k \in 1..(Len(ivs) - 1) : ivs[k].start <= ivs[k + 1].start

\* two stored intervals touch end to start and carry equal metadata
AdjacentEqual(ivs) ==
    \E a, b \in 1..Len(ivs) :
        a # b /\ End(ivs[a]) = ivs[b].start /\ ivs[a].metadata = ivs[b].metadata

\* C35: after add_region, remove_region, find_and_remove, split_region and
\* update_metadata the stored intervals are in ascending order of start and no two
\* adjacent stored intervals have equal metadata
MutationsKeepListCanonical ==
    lib_last.op \in {"add_region", "remove_region", "find_and_remove", "split_region",
                     "update_metadata"}
      => AscendingByStart(intervals) /\ ~AdjacentEqual(intervals)

\* every Page of every page table, as table position and position in the page list
PagePositions ==
    { << t, k >> : t \in 1..Len(page_tables), k \in 1..MaxCalls * MaxSeq } \cap
    { x \in (1..Len(page_tables)) \X (1..MaxCalls * MaxSeq) :
        x[2] <= Len(page_tables[x[1]].page_table_entries) }

PageAt(x) == page_tables[x[1]].page_table_entries[x[2]]

\* C36: two distinct Pages, of one page table or of two, have intersecting PA ranges only
\* if both are cross-core Pages of one allocate_cross_core_page call, which puts one Page
\* into each page table, and then their pa and size are equal
PagesShareNoPa ==
    \A x, y \in PagePositions :
        (x # y /\ Range(PageAt(x).pa, PageAt(x).size)
                    \cap Range(PageAt(y).pa, PageAt(y).size) # {})
          => /\ PageAt(x).is_cross_core /\ PageAt(y).is_cross_core
             /\ x[1] # y[1]
             /\ PageAt(x).pa = PageAt(y).pa /\ PageAt(x).size = PageAt(y).size

\* two Pages of two page tables share their PA range, next to a Page that is not cross-core
CrossCorePagesShareOnePa ==
    /\ \E x, y \in PagePositions :
          x # y /\ Range(PageAt(x).pa, PageAt(x).size)
                     \cap Range(PageAt(y).pa, PageAt(y).size) # {}
    /\ \E z \in PagePositions : ~PageAt(z).is_cross_core

\* the record covers one cross-core Page only
OfCrossCoreSegment(a) ==
    Len(a.covered_pages) = 1 /\ a.covered_pages[1].is_cross_core /\ a.page_type = "data"

\* C37: no two MemoryAllocation records of one page table overlap in VA, and two records
\* overlap in PA only if they are the records one cross-core segment leaves in two page
\* tables: the same PA range and size, each covering the cross-core Page of its table
AllocationsShareNoBytes ==
    \A i, j \in 1..Len(allocations) :
        i # j =>
          LET a == allocations[i]
              b == allocations[j]
          IN  /\ a.mmu = b.mmu
                    => Range(a.va_start, a.size) \cap Range(b.va_start, b.size) = {}
              /\ Range(a.pa_start, a.size) \cap Range(b.pa_start, b.size) # {}
                    => /\ OfCrossCoreSegment(a) /\ OfCrossCoreSegment(b)
                       /\ a.mmu # b.mmu
                       /\ a.pa_start = b.pa_start /\ a.size = b.size

\* the world o differs from the present state in nothing but the page table t, the
\* manager's PA sets and the manager's allocation list
OnlyTableChanged(o, t) ==
    /\ Len(o.world.page_tables) = Len(page_tables)
    /\ \A u \in 1..Len(page_tables) :
          u # t =>
            /\ o.world.page_tables[u].unmapped_va_intervals
                 = page_tables[u].unmapped_va_intervals
            /\ o.world.page_tables[u].mapped_va_intervals
                 = page_tables[u].mapped_va_intervals
            /\ o.world.page_tables[u].non_allocated_va_intervals
                 = page_tables[u].non_allocated_va_intervals
            /\ o.world.page_tables[u].allocated_va_intervals
                 = page_tables[u].allocated_va_intervals
            /\ o.world.page_tables[u].page_table_entries
                 = page_tables[u].page_table_entries
            /\ o.world.page_tables[u] = page_tables[u]
    /\ o.world.memory_segments = memory_segments
    /\ o.world.segments_created = segments_created

\* C38: in every reachable state allocate_page and allocate_segment on a page table,
\* with any arguments and however the call ends, leave the four VA sets and the page
\* list of every other registered page table as they were; only that table, the
\* manager's PA sets and the manager's allocation list may change
OtherTablesUntouched ==
    /\ \A t \in 1..Len(page_tables), a \in PageArgs :
          \A o \in AllocatePageOutcomes(World, t, a.size, a.alignment_bits, a.page_type,
                                        a.sequential_page_count, a.VA_eq_PA) :
              OnlyTableChanged(o, t)
    /\ \A c \in SegmentCalls : \A o \in SegmentOutcomes(c) : OnlyTableChanged(o, c.t)

\* two page tables hold mapped and allocated VA, and on the second both calls may succeed
\* and may fail
BothCallsNextToAnotherTable ==
    /\ Len(page_tables) = 2
    /\ page_tables[1].allocated_va_intervals # << >>
    /\ page_tables[1].page_table_entries # << >>
    /\ \E a \in PageArgs :
          \E o \in AllocatePageOutcomes(World, 2, a.size, a.alignment_bits, a.page_type,
                                        a.sequential_page_count, a.VA_eq_PA) :
              o.result = "ok" /\ o.world.page_tables[2] # page_tables[2]
    /\ \E a \in PageArgs :
          \E o \in AllocatePageOutcomes(World, 2, a.size, a.alignment_bits, a.page_type,
                                        a.sequential_page_count, a.VA_eq_PA) :
              o.result # "ok"
    /\ \E c \in SegmentCalls : \E o \in SegmentOutcomes(c) :
          c.t = 2 /\ o.result = "ok" /\ o.world.page_tables[2] # page_tables[2]
    /\ \E c \in SegmentCalls : \E o \in SegmentOutcomes(c) : c.t = 2 /\ o.result # "ok"

\* C39: in every state reached through create_page_table, allocate_page,
\* allocate_cross_core_page and allocate_segment, allocate_segment with VA_eq_PA=False,
\* of any size and alignment_bits, does not fail with PageTableInconsistent: it records an
\* allocation or finds no non-allocated region
RegularSegmentFindsConsistentPages ==
    \A c \in SegmentCalls :
        ~c.a.VA_eq_PA =>
            \A o \in SegmentOutcomes(c) :
                o.result \in {"ok", "NoAvailableMappedRegion"}

\* the VA range find_region may choose for the call c of allocate_segment
RegularStarts(c) ==
    FindRegion(page_tables[c.t].non_allocated_va_intervals, c.a.size, c.a.alignment_bits,
               RegularCriteria(c.a.page_type))

\* C39, amended: in every state reached through create_page_table, allocate_page,
\* allocate_cross_core_page and allocate_segment, allocate_segment with VA_eq_PA=False
\* records an allocation, finds no non-allocated region, or fails with
\* PageTableInconsistent; it fails so only when alignment_bits is given, Pages of the
\* table cover the chosen range, and the PA the containing Page gives for its start is
\* not a multiple of 2^alignment_bits: never for a gap or a missing cover
RegularSegmentInconsistentOnlyByPa ==
    \A c \in SegmentCalls :
        ~c.a.VA_eq_PA =>
          /\ \A o \in SegmentOutcomes(c) :
                o.result \in {"ok", "NoAvailableMappedRegion", "PageTableInconsistent"}
          /\ \A va \in RegularStarts(c) :
                LET o == AllocateSegmentRegularAt(World, c.t, va, c.a.size, c.a.page_type,
                                                  c.a.alignment_bits)
                    pages == page_tables[c.t].page_table_entries
                IN  \/ o.result = "ok"
                    \/ /\ o.result = "PageTableInconsistent"
                       /\ c.a.alignment_bits # NoBits
                       /\ Range(va, c.a.size)
                            \subseteq UNION { Range(pages[i].va, pages[i].size) :
                                                i \in 1..Len(pages) }
                       /\ \E i \in 1..Len(pages) :
                             /\ va \in Range(pages[i].va, pages[i].size)
                             /\ (pages[i].pa + (va - pages[i].va))
                                   % Pow2(c.a.alignment_bits) # 0

\* after an allocate_segment that succeeded, a call with alignment_bits may choose a
\* range whose PA is misaligned and fail, and a call without may succeed
MisalignedPaAfterSegment ==
    /\ allocations # << >>
    /\ \E c \in SegmentCalls :
          /\ ~c.a.VA_eq_PA /\ c.a.alignment_bits # NoBits
          /\ \E o \in SegmentOutcomes(c) : o.result = "PageTableInconsistent"
    /\ \E c \in SegmentCalls :
          /\ ~c.a.VA_eq_PA /\ c.a.alignment_bits = NoBits
          /\ \E o \in SegmentOutcomes(c) : o.result = "ok"

====
